---- MODULE Spec2Model ----
(***************************************************************************)
(* A state-machine model of the lead-generation backend:                   *)
(*   - the bulk coordinator (app/api/bulk.py): the in-memory job table,    *)
(*     the analyses collection and the background task of each job;        *)
(*   - the analysis pipeline (app/services/analyzer.py and                 *)
(*     app/services/gemini_client.py);                                     *)
(*   - the knowledge store (app/rag/knowledge_base.py).                    *)
(* Python strings that the code takes apart are sequences of parts, dicts  *)
(* are functions whose DOMAIN is the set of keys present, floats with one  *)
(* decimal are integers in tenths (5.0 is 50).                             *)
(***************************************************************************)
EXTENDS Integers, Sequences, FiniteSets, TLC

(***************************************************************************)
(* Bounds of the model                                                     *)
(***************************************************************************)
\* longest URL list of a request in the bulk-processing specification
MaxUrls == 2

(***************************************************************************)
(* Program constants                                                       *)
(***************************************************************************)
\* bulk.py:66  "if not urls or len(urls) > 500"
MaxBulkUrls == 500
\* excel_processor.py:32  batch_size = 5
BatchSize == 5

VARIABLES
    \* ---- bulk coordinator -------------------------------------------
    bulk_operations,   \* keys of the module-level dict bulk_operations
    operation,         \* the job dict objects, by bulk id
    analyses,          \* db.analyses: analysis id -> document
    nextId,            \* number of analysis ids handed out so far
    pc,                \* position of the background task of each job
    idx,               \* loop index i of the task (1-based)
    analysis_result,   \* the task's local analysis_result
    outcomes,          \* history: how each analysis of the job ended, in order
    peak,              \* history: most analyses of the job in flight at once
    request,           \* the request body under observation: shape and sizes
    response,          \* the last HTTP response sent
    reported,          \* the body of the last status response
    \* ---- analysis pipeline: one call of analyze_website ---------------
    a_pc,              \* position in analyze_website
    scraped_data,      \* the scraper's result
    rag_analysis,      \* the result of _perform_rag_analysis
    response_text,     \* the text of the LLM's response
    parsed,            \* what _parse_analysis_response_robust gave back
    analysis,          \* the local analysis
    enriched,          \* the record handed to _normalize_analysis
    returned,          \* what the call gave back
    calls,             \* history: how often each step was invoked
    \* ---- knowledge base ----------------------------------------------
    knowledge_data,    \* KnowledgeBase.knowledge_data: the contents, in order
    embeddings,        \* KnowledgeBase.embeddings: one per item
    last_call,         \* history: the last get_relevant_context call
    prev_call,         \* history: the call before it
    \* ---- one function called on its own ------------------------------
    f_in,              \* the arguments of the function under observation
    f_out,             \* what its last call returned
    f_prev             \* history: what the call before it returned

bulkVars == <<bulk_operations, operation, analyses, nextId, pc, idx,
              analysis_result, outcomes, peak, request, response, reported>>

analysisVars == <<a_pc, scraped_data, rag_analysis, response_text, parsed, analysis,
                  enriched, returned, calls>>

kbVars == <<knowledge_data, embeddings, last_call, prev_call>>

callVars == <<f_in, f_out, f_prev>>

vars == <<bulkVars, analysisVars, kbVars, callVars>>

None == "None"

(***************************************************************************)
(* Small helpers                                                           *)
(***************************************************************************)
Max(a, b) == IF a >= b THEN a ELSE b
Min(a, b) == IF a <= b THEN a ELSE b

(***************************************************************************)
(* Python values.  A value is its type, a number (scores, in tenths) and a *)
(* sequence: the parts of a string, the items of a list, the keys of a     *)
(* nested dict.  A dict of fields is a function from its keys to values.   *)
(***************************************************************************)
Value(t, n, l) == [t |-> t, n |-> n, l |-> l]
PyNone == Value("none", 0, <<>>)
Str(parts) == Value("str", 0, parts)
Num(tenths) == Value("num", tenths, <<>>)
List(items) == Value("list", 0, items)
Dict(keys) == Value("dict", 0, keys)

\* value in [None, '', [], {}]
IsBlank(v) == v \in {PyNone, Str(<<>>), List(<<>>), Dict(<<>>)}

\* not value
Falsy(v) == IsBlank(v) \/ v = Num(0)

\* {}
EmptyDict == [k \in {} |-> PyNone]

\* d.get(key, default)
Get(d, key, default) == IF key \in DOMAIN d THEN d[key] ELSE default

\* d[key] = v on a copy of d
With(d, key, v) == [k \in DOMAIN d \cup {key} |-> IF k = key THEN v ELSE d[k]]

\* d without key
Without(d, key) == [k \in DOMAIN d \ {key} |-> d[k]]

\* d.update(e) on a copy of d
Update(d, e) == [k \in DOMAIN d \cup DOMAIN e |-> IF k \in DOMAIN e THEN e[k] ELSE d[k]]

\* what a call gives back: a dict ("dict"), None ("none"), an exception
\* ("raise"); "pending" before the call
Ret(t, d) == [t |-> t, d |-> d]
Pending == Ret("pending", EmptyDict)
ReturnsNone == Ret("none", EmptyDict)
Raises == Ret("raise", EmptyDict)

\* no retrieval done yet
NoRag ==
    [detected_industry |-> PyNone, general_context |-> <<>>,
     industry_context |-> <<>>, technology_context |-> <<>>]

\* the calls analyze_website has made
NoCalls == [scrape |-> 0, rag |-> 0, llm |-> 0, fallback |-> 0, normalize |-> 0]

\* no analysis under way
AnalysisIdle ==
    /\ a_pc = "idle"
    /\ scraped_data = EmptyDict
    /\ rag_analysis = NoRag
    /\ response_text = <<>>
    /\ parsed = Pending
    /\ analysis = Pending
    /\ enriched = EmptyDict
    /\ returned = Pending
    /\ calls = NoCalls

\* no function is called on its own
CallIdle ==
    /\ f_in = <<>>
    /\ f_out = <<>>
    /\ f_prev = <<>>

\* no knowledge-base call recorded
NoCall == [corpus |-> <<>>, query |-> "none", top_k |-> 0, threshold |-> 0,
           result |-> <<>>]

\* the knowledge base is not under observation
KbIdle ==
    /\ knowledge_data = <<>>
    /\ embeddings = <<>>
    /\ last_call = NoCall
    /\ prev_call = NoCall

(***************************************************************************)
(* URLs.  A URL string is a sequence of parts: " " is white space,         *)
(* "http://" and "https://" are the schemes, anything else is a host.      *)
(***************************************************************************)
Schemes == {"http://", "https://"}

RECURSIVE LStrip(_)
LStrip(s) == IF s # <<>> /\ Head(s) = " " THEN LStrip(Tail(s)) ELSE s

RECURSIVE RStrip(_)
RStrip(s) ==
    IF s # <<>> /\ s[Len(s)] = " " THEN RStrip(SubSeq(s, 1, Len(s) - 1)) ELSE s

\* str.strip()
Strip(s) == RStrip(LStrip(s))

\* url.startswith(('http://', 'https://'))
StartsWithScheme(s) == s # <<>> /\ Head(s) \in Schemes

\* bulk.py:72-75: the entry as appended to valid_urls
NormalizeUrl(url) ==
    IF StartsWithScheme(url) THEN Strip(url)
    ELSE Strip(<<"https://">> \o Strip(url))

\* the test without .strip(): white space passes
IsUsable_NoStrip(url) == url # <<>>

\* bulk.py:72: isinstance(url, str) and url.strip()
IsUsable(url) == Strip(url) # <<>>

RECURSIVE ValidUrls(_)
\* bulk.py:70-75: the loop building valid_urls, entry by entry in order
\* (computed by halves, so that a list of 500 entries needs little depth)
ValidUrls(urls) ==
    IF urls = <<>> THEN <<>>
    ELSE IF Len(urls) = 1
         THEN IF IsUsable(urls[1]) THEN <<NormalizeUrl(urls[1])>> ELSE <<>>
         ELSE LET half == Len(urls) \div 2
              IN  ValidUrls(SubSeq(urls, 1, half)) \o
                  ValidUrls(SubSeq(urls, half + 1, Len(urls)))

(***************************************************************************)
(* Bulk coordinator: app/api/bulk.py                                       *)
(***************************************************************************)
\* the values uuid.uuid4() hands out; each is handed out once
BulkIdOrder == <<"b1", "b2">>
BulkIds == {BulkIdOrder[k] : k \in 1..Len(BulkIdOrder)}

\* the entries a request's URL list is built from: with a scheme, bare and
\* padded with white space, and blank
UrlPool == { <<"https://", "a.com">>, <<" ", "a.com", " ">>, <<" ">> }

\* how analyzer.analyze_website(url) can end inside the per-URL try block:
\* an analysis record, an {'error': ...} result, or an exception
AnalysisOutcomes == {"record", "error", "raise"}

\* no status response sent yet
NoReport == [bulk_id |-> "None", status |-> "none", completed |-> 0, failed |-> 0,
             total_urls |-> 0, progress_percentage |-> 0]

\* an HTTP response (HTTPException: its status code)
Response(op, code, bulk_id) == [op |-> op, code |-> code, bulk_id |-> bulk_id]

\* bulk.py:89-97: the document inserted for one URL
PendingDoc(url) == [url |-> url, status |-> "pending", result_data |-> None]

\* a tracking entry that starts as 'pending'
NewOperation_Pending(valid_urls, analysis_ids) ==
    [status |-> "pending", total_urls |-> Len(valid_urls),
     completed |-> 0, failed |-> 0,
     analysis_ids |-> analysis_ids, urls |-> valid_urls, error |-> None]

\* bulk.py:103-113: the tracking entry of a new job
NewOperation(valid_urls, analysis_ids) ==
    [status |-> "processing", total_urls |-> Len(valid_urls),
     completed |-> 0, failed |-> 0,
     analysis_ids |-> analysis_ids, urls |-> valid_urls, error |-> None]

\* the slot of a bulk id that uuid4 has not handed out yet
NoOperation ==
    [status |-> "absent", total_urls |-> 0, completed |-> 0, failed |-> 0,
     analysis_ids |-> <<>>, urls |-> <<>>, error |-> None]

\* a write that matches no document (a filter on the wrong key)
UpdateOne_Lost(coll, id, status, result_data) == coll

\* db.analyses.update_one({"_id": id}, {"$set": fields}): no document, no change
UpdateOne(coll, id, status, result_data) ==
    IF id \in DOMAIN coll
    THEN [coll EXCEPT ![id].status = status, ![id].result_data = result_data]
    ELSE coll

\* a status write that changes nothing
UpdateStatus_Skipped(coll, id, status) == coll

\* update_one with only the status in $set (bulk.py:205-213)
UpdateStatus(coll, id, status) ==
    IF id \in DOMAIN coll THEN [coll EXCEPT ![id].status = status] ELSE coll

\* POST /bulk/urls, bulk.py:51-127.  request_data is the body: its shape
\* ("dict" with a "urls" key, a direct "list", or "other") and the URL list.
\* dbUp: whether get_database() and the inserts answer; when they do not,
\* the request fails before the first document is written (a failure part
\* of the way through the inserts is left out).
bulk_analyze_urls(request_data, bulk_id, dbUp) ==
    \E urls \in {request_data.urls} : \E valid_urls \in {ValidUrls(urls)} :
    LET n == Len(valid_urls)
        analysis_ids == [k \in 1..n |-> nextId + k]
        reject(code) ==
            /\ response' = Response("bulk_urls", code, None)
            /\ UNCHANGED <<bulk_operations, operation, analyses, nextId, pc,
                           idx, analysis_result, outcomes, peak, reported>>
    IN  IF request_data.shape \notin {"dict", "list"} THEN reject(400)
        ELSE IF urls = <<>> \/ Len(urls) > MaxBulkUrls THEN reject(400)
        ELSE IF valid_urls = <<>> THEN reject(400)
        ELSE IF ~dbUp THEN reject(500)
        ELSE /\ bulk_id \in BulkIds
             /\ operation[bulk_id] = NoOperation
             /\ analyses' = [id \in DOMAIN analyses \cup {nextId + k : k \in 1..n} |->
                               IF id \in DOMAIN analyses THEN analyses[id]
                               ELSE PendingDoc(valid_urls[id - nextId])]
             /\ nextId' = nextId + n
             /\ operation' = [operation EXCEPT
                                ![bulk_id] = NewOperation(valid_urls, analysis_ids)]
             /\ bulk_operations' = bulk_operations \cup {bulk_id}
             /\ pc' = [pc EXCEPT ![bulk_id] = "queued"]
             /\ response' = Response("bulk_urls", 200, bulk_id)
             /\ UNCHANGED <<idx, analysis_result, outcomes, peak, reported>>

\* the URLs (by position) of a job whose document is 'processing' in coll:
\* their analysis has been started and its result is not written yet
Processing(coll, op) ==
    {k \in 1..Len(op.analysis_ids) :
        /\ op.analysis_ids[k] \in DOMAIN coll
        /\ coll[op.analysis_ids[k]].status = "processing"}

\* the number of analyses of job b in flight
InFlight(b) == Cardinality(Processing(analyses, operation[b]))

\* bulk.py:197-200 and 270-275: the task starts; setupOk is whether
\* get_database() and WebsiteAnalyzer() return
StartTask(b, setupOk) ==
    /\ pc[b] = "queued"
    /\ IF setupOk /\ b \in bulk_operations
       THEN /\ pc' = [pc EXCEPT ![b] = "mark"]
            /\ idx' = [idx EXCEPT ![b] = 1]
            /\ UNCHANGED operation
       ELSE /\ pc' = [pc EXCEPT ![b] = "aborted"]
            /\ operation' = IF b \in bulk_operations
                            THEN [operation EXCEPT ![b].status = "failed",
                                                   ![b].error = "setup"]
                            ELSE operation
            /\ UNCHANGED idx
    /\ UNCHANGED <<bulk_operations, analyses, nextId, analysis_result, outcomes,
                   peak, request, response,
                   reported, analysisVars, kbVars, callVars>>

\* bulk.py:205-213: the document of URL i is set to 'processing'
MarkProcessing(b) ==
    /\ pc[b] = "mark"
    /\ LET marked == UpdateStatus(analyses, operation[b].analysis_ids[idx[b]], "processing")
       IN  /\ analyses' = marked
           /\ peak' = [peak EXCEPT
                         ![b] = Max(@, Cardinality(Processing(marked, operation[b])))]
    /\ pc' = [pc EXCEPT ![b] = "analyze"]
    /\ UNCHANGED <<bulk_operations, operation, nextId, idx, analysis_result, outcomes,
                   request, response,
                   reported, analysisVars, kbVars, callVars>>

\* bulk.py:216 and 251: analyzer.analyze_website(url) returns or raises
Analyze(b, out) ==
    /\ pc[b] = "analyze"
    /\ analysis_result' = [analysis_result EXCEPT ![b] = out]
    /\ pc' = [pc EXCEPT ![b] = IF out = "raise" THEN "handler" ELSE "record"]
    /\ outcomes' = [outcomes EXCEPT ![b] = Append(@, out = "record")]
    /\ UNCHANGED <<bulk_operations, operation, analyses, nextId, idx, peak,
                   request, response,
                   reported, analysisVars, kbVars, callVars>>

\* bulk.py:218-245: the result is written to the document
RecordResult(b) ==
    /\ pc[b] = "record"
    /\ analyses' =
         IF analysis_result[b] = "error"
         THEN UpdateOne(analyses, operation[b].analysis_ids[idx[b]], "failed", "error")
         ELSE UpdateOne(analyses, operation[b].analysis_ids[idx[b]], "completed", "record")
    /\ pc' = [pc EXCEPT ![b] = "count"]
    /\ UNCHANGED <<bulk_operations, operation, nextId, idx, analysis_result, outcomes,
                   peak, request, response,
                   reported, analysisVars, kbVars, callVars>>

\* bulk.py:251-262: the per-URL except block writes the failure
HandleFailure(b) ==
    /\ pc[b] = "handler"
    /\ analyses' = UpdateOne(analyses, operation[b].analysis_ids[idx[b]], "failed", "error")
    /\ pc' = [pc EXCEPT ![b] = "count"]
    /\ UNCHANGED <<bulk_operations, operation, nextId, idx, analysis_result, outcomes,
                   peak, request, response,
                   reported, analysisVars, kbVars, callVars>>

\* an {'error': ...} result counted as a success
CounterOf_ErrorAsCompleted(result) == IF result = "raise" THEN "failed" ELSE "completed"

\* the counter the task adds to for its current result (bulk.py:230, 246, 263)
CounterOf(result) == IF result = "record" THEN "completed" ELSE "failed"

\* bulk.py:230/246/263, then the next iteration or bulk.py:266-268
Count(b) ==
    /\ pc[b] = "count"
    /\ LET c == CounterOf(analysis_result[b])
           counted == [operation[b] EXCEPT ![c] = @ + 1]
       IN  IF idx[b] < Len(operation[b].urls)
           THEN /\ operation' = [operation EXCEPT ![b] = counted]
                /\ idx' = [idx EXCEPT ![b] = @ + 1]
                /\ pc' = [pc EXCEPT ![b] = "mark"]
           ELSE /\ operation' = [operation EXCEPT
                                   ![b] = [counted EXCEPT !.status = "completed"]]
                /\ pc' = [pc EXCEPT ![b] = "done"]
                /\ UNCHANGED idx
    /\ UNCHANGED <<bulk_operations, analyses, nextId, analysis_result, outcomes,
                   peak, request, response,
                   reported, analysisVars, kbVars, callVars>>

RECURSIVE SeqsUpTo(_, _)
\* the sequences over S of length at most n
SeqsUpTo(S, n) ==
    IF n = 0 THEN {<<>>}
    ELSE LET shorter == SeqsUpTo(S, n - 1)
         IN  shorter \cup {Append(s, x) : s \in {t \in shorter : Len(t) = n - 1}, x \in S}

\* the request bodies of the bulk-processing specification
BulkRequests ==
    {[shape |-> "other", urls |-> <<>>]} \cup
    {[shape |-> "dict", urls |-> u] : u \in SeqsUpTo(UrlPool, MaxUrls)}

\* what is kept of a request body: its shape, the length of its URL list and
\* the number of entries that hold something other than white space
RequestSummary(request_data) ==
    [shape |-> request_data.shape,
     n |-> Len(request_data.urls),
     usable |-> Cardinality({k \in 1..Len(request_data.urls) :
                   \E p \in 1..Len(request_data.urls[k]) : request_data.urls[k][p] # " "})]

BulkInit ==
    /\ bulk_operations = {}
    /\ operation = [b \in BulkIds |-> NoOperation]
    /\ analyses = <<>>
    /\ nextId = 0
    /\ pc = [b \in BulkIds |-> "none"]
    /\ idx = [b \in BulkIds |-> 0]
    /\ analysis_result = [b \in BulkIds |-> None]
    /\ outcomes = [b \in BulkIds |-> <<>>]
    /\ peak = [b \in BulkIds |-> 0]
    /\ request = RequestSummary([shape |-> "none", urls |-> <<>>])
    /\ response = Response("none", 0, None)
    /\ reported = NoReport

\* uuid.uuid4(): the values are handed out in this order, each once
HandedOut == Cardinality({b \in BulkIds : operation[b] # NoOperation})
FreshBulkId == IF HandedOut < Len(BulkIdOrder) THEN BulkIdOrder[HandedOut + 1] ELSE None

Submit ==
    \E request_data \in BulkRequests, dbUp \in BOOLEAN :
        /\ bulk_analyze_urls(request_data, FreshBulkId, dbUp)
        /\ UNCHANGED <<request, analysisVars, kbVars, callVars>>

TaskStep ==
    \E b \in BulkIds :
        \/ \E setupOk \in BOOLEAN : StartTask(b, setupOk)
        \/ MarkProcessing(b)
        \/ \E out \in AnalysisOutcomes : Analyze(b, out)
        \/ RecordResult(b)
        \/ HandleFailure(b)
        \/ Count(b)

BulkNext == Submit \/ TaskStep

\* only the bulk coordinator runs
BulkOnlyInit == BulkInit /\ AnalysisIdle /\ KbIdle /\ CallIdle

SpecBulk == BulkOnlyInit /\ [][BulkNext]_vars

(***************************************************************************)
(* Properties of the background task                                       *)
(***************************************************************************)
\* the document of the k-th URL of job b
DocOf(b, k) == analyses[operation[b].analysis_ids[k]]

\* the URLs of job b (by position) whose analysis raised or returned an error
Failures(b) == {k \in 1..Len(outcomes[b]) : ~outcomes[b][k]}

Terminal == {"completed", "failed"}

BatchOf(k) == (k - 1) \div BatchSize

FilledUrls(n, blanks, url) == [k \in 1..n |-> IF k <= blanks THEN <<" ">> ELSE url]

EdgeSizes == {0, 1, 2, MaxBulkUrls, MaxBulkUrls + 1}

EdgeRequests ==
    {[shape |-> "other", urls |-> <<>>]} \cup
    {[shape |-> "list", urls |-> FilledUrls(n, blanks, <<" ", "a.com", " ">>)] :
        n \in EdgeSizes, blanks \in {0, 1, MaxBulkUrls + 1}}

SubmitEdge ==
    \E request_data \in EdgeRequests, dbUp \in BOOLEAN :
        /\ bulk_analyze_urls(request_data, FreshBulkId, dbUp)
        /\ request' = RequestSummary(request_data)
        /\ UNCHANGED <<analysisVars, kbVars, callVars>>

SubmitNext == SubmitEdge

SpecSubmit == BulkOnlyInit /\ [][SubmitNext]_vars

\* C9: a request whose URL list is empty, longer than 500, or without a
\* usable entry is answered 400 and changes neither the job table nor the
\* analyses collection; and every tracked job has between 1 and 500 URLs and
\* as many analysis ids as URLs.
C9_RejectsBadRequests ==
    [][ /\ (request'.n = 0 \/ request'.n > MaxBulkUrls \/ request'.usable = 0)
            => /\ response'.code = 400
               /\ UNCHANGED <<bulk_operations, operation, analyses, nextId, pc>>
        /\ \A b \in bulk_operations' :
              /\ 1 <= operation'[b].total_urls
              /\ operation'[b].total_urls <= MaxBulkUrls
              /\ Len(operation'[b].analysis_ids) = operation'[b].total_urls
              /\ Len(operation'[b].urls) = operation'[b].total_urls
              /\ \A k \in 1..operation'[b].total_urls :
                    operation'[b].analysis_ids[k] \in DOMAIN analyses'
        /\ Cardinality(DOMAIN analyses') = nextId'
      ]_vars

\* a list of 501 entries has just been refused while a job of 500 URLs is tracked
C9_Witness ==
    /\ request.n = MaxBulkUrls + 1
    /\ request.usable > 0
    /\ response.code = 400
    /\ \E b \in bulk_operations : operation[b].total_urls = MaxBulkUrls

(***************************************************************************)
(* The LLM client: app/services/gemini_client.py                           *)
(*                                                                         *)
(* A response text is a sequence of tokens.  A token is a stretch of the   *)
(* text that the parser's regular expressions cannot split:                *)
(*   prose      words without braces, back-ticks or field labels           *)
(*   label      words holding field labels ("Company Name: Acme")          *)
(*   scalar     a JSON number standing alone                               *)
(*   nl         a line break                                               *)
(*   fence_json the marker ```json,   fence  the marker ```                *)
(*   obj        a JSON object nested at most two deep; d is its content    *)
(*   deep       a JSON object nested three deep; d is its content          *)
(*   malformed  a brace-balanced group that is not JSON                    *)
(*   trunc      a JSON object cut off before any closing brace             *)
(***************************************************************************)
Tok(kind, d) == [kind |-> kind, d |-> d]
Prose == Tok("prose", EmptyDict)
Label == Tok("label", EmptyDict)
Scalar == Tok("scalar", EmptyDict)
NL == Tok("nl", EmptyDict)
FenceJson == Tok("fence_json", EmptyDict)
Fence == Tok("fence", EmptyDict)
Obj(d) == Tok("obj", d)
Deep(d) == Tok("deep", d)
Nest(d) == Tok("nest", d)
Malformed == Tok("malformed", EmptyDict)
Trunc == Tok("trunc", EmptyDict)

FenceKinds == {"fence_json", "fence"}
\* the tokens that begin with "{" and those that end with "}"
BraceStart == {"obj", "deep", "nest", "malformed", "trunc"}
BraceEnd == {"obj", "deep", "nest", "malformed"}
\* the tokens json.loads accepts
JsonObjects == {"obj", "deep", "nest"}

\* gemini_client.py:392-395
ValidationFields ==
    {"company_name", "industry", "business_purpose", "pain_points", "recommendations"}

\* a record the LLM was asked for, with the seven fields the completeness
\* check looks at
Complete7 ==
    [company_name |-> Str(<<"Acme">>), industry |-> Str(<<"Retail">>),
     business_purpose |-> Str(<<"Sells shoes">>),
     pain_points |-> List(<<"slow site">>),
     recommendations |-> List(<<"add a CDN">>),
     digital_maturity_score |-> Num(65), urgency_score |-> Num(70)]

\* the inner group of a deep object: JSON, not an analysis
DeepInner == [emails |-> List(<<"a@b.c">>)]

\* the inner group of a nest object, {five fields, "contact": {...}}: an
\* analysis of its own, held as a value three braces deep in the object
NestInner ==
    [company_name |-> Str(<<"Rival">>), industry |-> Str(<<"Finance">>),
     business_purpose |-> Str(<<"Lends money">>),
     pain_points |-> List(<<"old site">>),
     recommendations |-> List(<<"add a blog">>),
     contact |-> Dict(<<"email">>)]

\* a JSON candidate: whether json.loads accepts it, whether it is a bare
\* number, and the parsed content
Candidate(ok, scalar, d) == [ok |-> ok, scalar |-> scalar, d |-> d]

\* _validate_analysis_structure, gemini_client.py:389-412: "true", "false",
\* or "raise" (the membership test on a number, .strip() on a name that is
\* not a string)
_validate_analysis_structure(c) ==
    IF c.scalar THEN "raise"
    ELSE IF ~(ValidationFields \subseteq DOMAIN c.d) THEN "false"
    ELSE IF c.d["pain_points"].t # "list" THEN "false"
    ELSE IF c.d["recommendations"].t # "list" THEN "false"
    ELSE IF c.d["company_name"].t # "str" THEN "raise"
    ELSE "true"

RECURSIVE SkipNl(_)
\* \s* : the line breaks at the head of the text are consumed
SkipNl(text) ==
    IF text # <<>> /\ Head(text).kind = "nl" THEN SkipNl(Tail(text)) ELSE text

RECURSIVE DropFences(_)
\* gemini_client.py:366-367: the two re.sub calls remove every fence marker
\* together with the white space after it
DropFences(text) ==
    IF text = <<>> THEN <<>>
    ELSE IF Head(text).kind \in FenceKinds THEN DropFences(SkipNl(Tail(text)))
    ELSE <<Head(text)>> \o DropFences(Tail(text))

RECURSIVE SplitLines(_)
\* text.split('\n')
SplitLines(text) ==
    IF \A i \in 1..Len(text) : text[i].kind # "nl" THEN <<text>>
    ELSE LET i == CHOOSE j \in 1..Len(text) :
                    /\ text[j].kind = "nl"
                    /\ \A h \in 1..(j - 1) : text[h].kind # "nl"
         IN  <<SubSeq(text, 1, i - 1)>> \o SplitLines(SubSeq(text, i + 1, Len(text)))

RECURSIVE JoinLines(_)
\* '\n'.join(lines)
JoinLines(lines) ==
    IF lines = <<>> THEN <<>>
    ELSE IF Len(lines) = 1 THEN lines[1]
    ELSE lines[1] \o <<NL>> \o JoinLines(Tail(lines))

RECURSIVE StripNlRight(_)
StripNlRight(text) ==
    IF text # <<>> /\ text[Len(text)].kind = "nl"
    THEN StripNlRight(SubSeq(text, 1, Len(text) - 1)) ELSE text

\* str.strip() on a text of tokens: only line breaks are white space
StripText(text) == StripNlRight(SkipNl(text))

\* _clean_response_for_json, gemini_client.py:362-387.  start_idx and end_idx
\* are the code's 0-based indices; lines[start_idx:end_idx] is kept.
_clean_response_for_json(text) ==
    LET lines == SplitLines(DropFences(text))
        starts == {i \in 1..Len(lines) :
                     lines[i] # <<>> /\ lines[i][1].kind \in BraceStart}
        ends == {i \in 1..Len(lines) :
                   lines[i] # <<>> /\ lines[i][Len(lines[i])].kind \in BraceEnd}
        start_idx == IF starts = {} THEN 0
                     ELSE (CHOOSE i \in starts : \A j \in starts : i <= j) - 1
        end_idx == IF ends = {} THEN Len(lines)
                   ELSE CHOOSE i \in ends : \A j \in ends : i >= j
    IN  StripText(JoinLines(SubSeq(lines, start_idx + 1, end_idx)))

RECURSIVE FencedGroups(_, _)
\* gemini_client.py:332-333: the matches of  opener \s* ({.*?}) \s* ```  in
\* order: a brace-balanced token between an opening marker and a marker
FencedGroups(text, opener) ==
    IF text = <<>> THEN <<>>
    ELSE IF Head(text).kind = opener
         THEN LET body == SkipNl(Tail(text))
                  after == IF body = <<>> THEN <<>> ELSE SkipNl(Tail(body))
              IN  IF /\ body # <<>>
                     /\ body[1].kind \in BraceEnd
                     /\ after # <<>>
                     /\ after[1].kind \in FenceKinds
                  THEN <<Candidate(body[1].kind \in JsonObjects, FALSE, body[1].d)>>
                           \o FencedGroups(Tail(after), opener)
                  ELSE FencedGroups(Tail(text), opener)
         ELSE FencedGroups(Tail(text), opener)

RECURSIVE BraceGroups(_)
\* gemini_client.py:334: the matches of (\{(?:[^{}]|{[^{}]*})*\}) in order:
\* every group of braces nested at most two deep; inside a deep object and
\* inside a nest object, which the pattern cannot match from their first
\* brace, that is the inner group
BraceGroups(text) ==
    IF text = <<>> THEN <<>>
    ELSE (CASE Head(text).kind = "obj" -> <<Candidate(TRUE, FALSE, Head(text).d)>>
            [] Head(text).kind = "deep" -> <<Candidate(TRUE, FALSE, DeepInner)>>
            [] Head(text).kind = "nest" -> <<Candidate(TRUE, FALSE, NestInner)>>
            [] Head(text).kind = "malformed" -> <<Candidate(FALSE, FALSE, EmptyDict)>>
            [] OTHER -> <<>>) \o BraceGroups(Tail(text))

\* gemini_client.py:349: json.loads(cleaned_text), the whole text at once
WholeJson(text) ==
    IF Len(text) = 1 /\ text[1].kind \in JsonObjects
        THEN <<Candidate(TRUE, FALSE, text[1].d)>>
    ELSE IF Len(text) = 1 /\ text[1].kind = "scalar"
        THEN <<Candidate(TRUE, TRUE, EmptyDict)>>
    ELSE <<Candidate(FALSE, FALSE, EmptyDict)>>

RECURSIVE TryCandidates(_)
\* gemini_client.py:337-345: the first candidate that parses and validates
\* is returned; one that does not parse is skipped; an exception in the
\* validation leaves the loops
TryCandidates(cs) ==
    IF cs = <<>> THEN ReturnsNone
    ELSE IF ~Head(cs).ok THEN TryCandidates(Tail(cs))
    ELSE LET v == _validate_analysis_structure(Head(cs))
         IN  IF v = "raise" THEN Raises
             ELSE IF v = "true" THEN Ret("dict", Head(cs).d)
             ELSE TryCandidates(Tail(cs))

\* gemini_client.py:418-495: the local `result` of the text extraction: the
\* defaults, and the company name a label gives
ExtractedFields(text) ==
    [company_name |-> IF \E i \in 1..Len(text) : text[i].kind = "label"
                      THEN Str(<<"Acme">>) ELSE Str(<<"Unknown">>),
     industry |-> Str(<<"Unknown">>),
     business_purpose |-> Str(<<"Could not determine from analysis">>),
     company_size |-> Str(<<"unknown">>),
     technologies |-> List(<<>>),
     contact_info |-> Dict(<<>>),
     pain_points |-> List(<<"Analysis parsing incomplete">>),
     recommendations |-> List(<<"Retry analysis with better prompt">>),
     digital_maturity_score |-> Num(50),
     urgency_score |-> Num(50),
     potential_value |-> Str(<<"To be determined">>),
     outreach_strategy |-> Str(<<"Follow up for more information">>),
     parsing_note |-> Str(<<"Extracted from unstructured response">>)]

\* _extract_from_structured_text, gemini_client.py:414-497: `result` is built
\* and the function ends at line 497 without a return statement: the caller
\* gets None
_extract_from_structured_text(text) ==
    LET result == ExtractedFields(text)
    IN  ReturnsNone

\* _parse_analysis_response_robust, gemini_client.py:323-360
_parse_analysis_response_robust(text) ==
    LET cleaned_text == _clean_response_for_json(text)
        matched == TryCandidates(FencedGroups(cleaned_text, "fence_json")
                                 \o FencedGroups(cleaned_text, "fence")
                                 \o BraceGroups(cleaned_text))
        whole == TryCandidates(WholeJson(cleaned_text))
    IN  IF matched.t = "dict" THEN matched
        ELSE IF matched.t = "raise" THEN _extract_from_structured_text(text)
        ELSE IF whole.t = "dict" THEN whole
        ELSE _extract_from_structured_text(text)

(***************************************************************************)
(* The parser applied to every short text                                  *)
(***************************************************************************)
\* longest response text, in tokens
MaxTokens == 3

\* a record without recommendations: it does not validate
PartialRecord == Without(Complete7, "recommendations")

\* a record whose company name is null
NullNameRecord == With(Complete7, "company_name", PyNone)

TokenPool ==
    {Prose, Label, Scalar, NL, FenceJson, Fence, Obj(Complete7), Obj(PartialRecord),
     Obj(NullNameRecord), Deep(Complete7), Nest(Complete7), Malformed, Trunc}

ResponseTexts == SeqsUpTo(TokenPool, MaxTokens)

ParserInit ==
    /\ BulkInit
    /\ KbIdle
    /\ CallIdle
    /\ a_pc = "parse"
    /\ response_text \in ResponseTexts
    /\ parsed = Pending
    /\ scraped_data = EmptyDict
    /\ rag_analysis = NoRag
    /\ analysis = Pending
    /\ enriched = EmptyDict
    /\ returned = Pending
    /\ calls = NoCalls

\* one call of _parse_analysis_response_robust(response_text)
ParseResponse ==
    /\ a_pc = "parse"
    /\ parsed' = _parse_analysis_response_robust(response_text)
    /\ a_pc' = "parsed"
    /\ UNCHANGED <<scraped_data, rag_analysis, response_text, analysis, enriched,
                   returned, calls, bulkVars, kbVars, callVars>>

ParserNext == ParseResponse

SpecParser == ParserInit /\ [][ParserNext]_vars

\* C2 as stated: whatever the text, the parser gives back a record with the
\* keys company_name, industry, business_purpose, pain_points (a list) and
\* recommendations (a list): never None, never an exception.
C2_ParserTotal ==
    a_pc = "parsed" =>
        /\ parsed.t = "dict"
        /\ ValidationFields \subseteq DOMAIN parsed.d
        /\ parsed.d["pain_points"].t = "list"
        /\ parsed.d["recommendations"].t = "list"

\* what the parser does give back: a JSON object of the text that validates,
\* or None; it never raises.
ParserGivesRecordOrNone ==
    a_pc = "parsed" =>
        /\ parsed.t \in {"dict", "none"}
        /\ parsed.t = "dict" =>
              /\ _validate_analysis_structure(Candidate(TRUE, FALSE, parsed.d)) = "true"
              /\ \E i \in 1..Len(response_text) :
                    /\ response_text[i].kind \in JsonObjects
                    /\ \/ response_text[i].d = parsed.d
                       \/ response_text[i].kind = "nest" /\ parsed.d = NestInner

\* the empty text has been parsed and None came back
C2_EmptyTextGivesNone ==
    /\ a_pc = "parsed"
    /\ response_text = <<>>
    /\ parsed = ReturnsNone

(***************************************************************************)
(* The analysis pipeline: app/services/analyzer.py                         *)
(***************************************************************************)
\* analyzer.py:214 and 225: meta[...][:3]
ListCut == 3
\* analyzer.py:241-242 and 325-326: 5.0, in tenths
DefaultScore == 50

\* analyzer.py:195-198
RequiredFields ==
    {"company_name", "industry", "business_purpose", "pain_points", "recommendations",
     "digital_maturity_score", "urgency_score"}

ScoreFields == {"digital_maturity_score", "urgency_score"}

\* the LLM call as analyze_website_content sees it: generate_content raises,
\* or the response carries a text
Gen(t, text) == [t |-> t, text |-> text]

\* analyze_website_content, gemini_client.py:16-32: the parser's answer when
\* the call returns; when it raises, the except block formats `result`, a
\* name that is not bound there, and the NameError leaves the method
analyze_website_content(gen) ==
    IF gen.t = "raise" THEN Raises
    ELSE _parse_analysis_response_robust(gen.text)

\* one context item of the retrieval: the lists of its metadata (None when
\* the metadata has no such list)
Ctx(pain_points, opportunities) ==
    [pain_points |-> pain_points, opportunities |-> opportunities]

\* a completeness test by truth value: a score of 0 counts as missing
_is_analysis_complete_Truthy(a) ==
    \A field \in RequiredFields : field \in DOMAIN a /\ ~Falsy(a[field])

\* _is_analysis_complete, analyzer.py:194-202
_is_analysis_complete(a) ==
    \A field \in RequiredFields : field \in DOMAIN a /\ ~IsBlank(a[field])

RECURSIVE BeforeDash(_)
\* title.split('-')[0]
BeforeDash(s) ==
    IF s = <<>> \/ Head(s) = "-" THEN <<>> ELSE <<Head(s)>> \o BeforeDash(Tail(s))

\* analyzer.py:206 and 319: scraped.get('title') or scraped.get('page_title') or ''
TitleOf(scraped) ==
    LET title == Get(scraped, "title", PyNone)
        page_title == Get(scraped, "page_title", PyNone)
    IN  IF ~Falsy(title) THEN title.l
        ELSE IF ~Falsy(page_title) THEN page_title.l
        ELSE <<>>

\* analyzer.py:207 and 320: company_guess
CompanyGuess(scraped) ==
    IF TitleOf(scraped) # <<>> THEN Strip(BeforeDash(TitleOf(scraped))) ELSE <<"N/A">>

\* PurposeDefault without its last alternative 'N/A'
PurposeDefault_NoDefault(scraped) ==
    LET description == Get(scraped, "description", PyNone)
        content == Get(scraped, "content", Str(<<>>))
        cut == Str(SubSeq(content.l, 1, Min(Len(content.l), 1)))
    IN  IF ~Falsy(description) THEN description ELSE cut

\* analyzer.py:235 and 329: description, else the first 160 characters of the
\* content, else 'N/A'.  A part of the content is a block of 160 characters.
PurposeDefault(scraped) ==
    LET description == Get(scraped, "description", PyNone)
        content == Get(scraped, "content", Str(<<>>))
        cut == Str(SubSeq(content.l, 1, Min(Len(content.l), 1)))
    IN  IF ~Falsy(description) THEN description
        ELSE IF ~Falsy(cut) THEN cut
        ELSE Str(<<"N/A">>)

\* analyzer.py:208 and 322: rag.get('detected_industry') or 'Unknown'
IndustryDefault(rag) ==
    IF ~Falsy(rag.detected_industry) THEN rag.detected_industry ELSE Str(<<"Unknown">>)

RECURSIVE Collect(_, _)
\* analyzer.py:211-214 and 222-225: the first three entries of the list each
\* context's metadata holds under `field`, context after context
Collect(contexts, field) ==
    IF contexts = <<>> THEN <<>>
    ELSE LET v == Head(contexts)[field]
         IN  (IF v.t = "list" THEN SubSeq(v.l, 1, Min(Len(v.l), ListCut)) ELSE <<>>)
                 \o Collect(Tail(contexts), field)

\* _generate_fallback_analysis, analyzer.py:204-245
_generate_fallback_analysis(scraped, rag) ==
    LET company_guess == CompanyGuess(scraped)
        pain_points == Collect(rag.industry_context, "pain_points")
        recommendations == Collect(rag.technology_context, "opportunities")
    IN  [company_name |-> IF company_guess # <<>> THEN Str(company_guess)
                          ELSE Str(<<"N/A">>),
         industry |-> IndustryDefault(rag),
         business_purpose |-> PurposeDefault(scraped),
         company_size |-> Str(<<"unknown">>),
         technologies |-> Get(scraped, "technologies", List(<<>>)),
         contact_info |-> Get(scraped, "contact_info", Dict(<<>>)),
         pain_points |-> IF pain_points # <<>> THEN List(pain_points)
                         ELSE List(<<"Limited online presence",
                                     "Performance optimization needed",
                                     "Missing analytics-driven decision making">>),
         recommendations |-> IF recommendations # <<>> THEN List(recommendations)
                             ELSE List(<<"Improve website performance and SEO",
                                         "Implement analytics and conversion tracking",
                                         "Modernize tech stack where feasible">>),
         digital_maturity_score |-> Num(DefaultScore),
         urgency_score |-> Num(DefaultScore),
         potential_value |-> Str(<<"To be determined">>),
         outreach_strategy |->
             Str(<<"Introduce value with quick wins and an assessment call">>)]

\* a test that does not look for an 'error' key
NeedsFallback_ErrorKept(a) ==
    \/ a.t = "none"
    \/ a.d = EmptyDict
    \/ ~_is_analysis_complete(a.d)

\* analyzer.py:32: not analysis or 'error' in analysis or not complete
NeedsFallback(a) ==
    \/ a.t = "none"
    \/ a.d = EmptyDict
    \/ "error" \in DOMAIN a.d
    \/ ~_is_analysis_complete(a.d)

\* _enrich_analysis_with_rag, analyzer.py:166-192.  The two nested dicts are
\* kept by their keys.
_enrich_analysis_with_rag(a, scraped, rag) ==
    Update(a,
        [url |-> Get(scraped, "url", PyNone),
         scraped_at |-> Get(scraped, "scraped_at", PyNone),
         page_title |-> Get(scraped, "title", PyNone),
         meta_description |-> Get(scraped, "description", PyNone),
         detected_technologies |-> Get(scraped, "technologies", List(<<>>)),
         rag_insights |-> Dict(<<"detected_industry", "relevant_services",
                                 "technology_opportunities", "industry_benchmarks",
                                 "confidence_score">>),
         knowledge_base_info |-> Dict(<<"total_items", "categories", "has_embeddings",
                                        "embedding_dimensions">>)])

\* the test of `ensure` with truthiness in place of membership
NeedsDefault_Falsy(d, key) == key \notin DOMAIN d \/ Falsy(d[key])

\* analyzer.py:315: key not in normalized or normalized.get(key) in [None, '', [], {}]
NeedsDefault(d, key) == key \notin DOMAIN d \/ IsBlank(d[key])

\* analyzer.py:314-316: ensure(key, default)
Ensure(d, key, default) == IF NeedsDefault(d, key) THEN With(d, key, default) ELSE d

\* analyzer.py:337: scraped.get('contact_info') or {}
ContactDefault(scraped) ==
    IF ~Falsy(Get(scraped, "contact_info", PyNone)) THEN scraped["contact_info"]
    ELSE Dict(<<>>)

\* _normalize_analysis, analyzer.py:310-343
_normalize_analysis(a, scraped, rag) ==
    LET n1 == Ensure(a, "company_name", Str(CompanyGuess(scraped)))
        n2 == Ensure(n1, "industry", IndustryDefault(rag))
        n3 == Ensure(n2, "digital_maturity_score", Num(DefaultScore))
        n4 == Ensure(n3, "urgency_score", Num(DefaultScore))
        n5 == Ensure(n4, "business_purpose", PurposeDefault(scraped))
        n6 == Ensure(n5, "company_size", Str(<<"unknown">>))
        n7 == IF Falsy(Get(n6, "technologies", PyNone))
              THEN With(n6, "technologies", Get(scraped, "technologies", List(<<>>)))
              ELSE n6
        n8 == Ensure(n7, "contact_info", ContactDefault(scraped))
        n9 == Ensure(n8, "pain_points",
                     List(<<"Limited online presence", "Performance optimization needed">>))
    IN  Ensure(n9, "recommendations",
               List(<<"Improve website performance and SEO",
                      "Implement analytics and tracking">>))

\* the test of the scrape result on a key the scraper never sets
ScrapeFailed_Never(scraped) == "failed" \in DOMAIN scraped

\* analyzer.py:19: 'error' in scraped_data
ScrapeFailed(scraped) == "error" \in DOMAIN scraped

\* analyzer.py:43-44: {'error': f'Analysis failed: {str(e)}'}
AnalysisFailed == [error |-> Str(<<"Analysis failed: ", "exception">>)]

(***************************************************************************)
(* What the scraper, the retrieval and the LLM can hand to the pipeline    *)
(***************************************************************************)
\* scraper.py:22-31
ScrapeOk(title, description, content, technologies) ==
    [url |-> Str(<<"https://", "a.com">>), title |-> Str(title),
     description |-> Str(description), content |-> Str(content),
     contact_info |-> Dict(<<"emails", "phones">>),
     technologies |-> List(technologies),
     images |-> List(<<>>), links |-> List(<<>>)]

Titles == {<<>>, <<"Acme", " ", "-", " ", "Home">>, <<"-", " ", "Home">>}
Descriptions == {<<>>, <<"We sell shoes">>}
Contents == {<<>>, <<"block 1", "block 2">>}
Technologies == {<<>>, <<"WordPress">>}

ScrapeOks ==
    {ScrapeOk(t, d, c, tech) :
        t \in Titles, d \in Descriptions, c \in Contents, tech \in Technologies}

\* scraper.py:33, and the bare error of the tests
ScrapeErrors ==
    {[error |-> Str(<<"timeout">>), url |-> Str(<<"https://", "a.com">>)],
     [error |-> Str(<<"Failed to scrape website">>)]}

ScrapeResults == ScrapeOks \cup ScrapeErrors

RagResults ==
    {NoRag,
     [detected_industry |-> Str(<<"retail">>),
      general_context |-> <<Ctx(PyNone, PyNone)>>,
      industry_context |-> <<Ctx(List(<<"p1", "p2", "p3", "p4">>), PyNone),
                             Ctx(Str(<<"none listed">>), PyNone)>>,
      technology_context |-> <<Ctx(PyNone, List(<<"o1", "o2">>))>>],
     [detected_industry |-> Str(<<"legal">>),
      general_context |-> <<>>,
      industry_context |-> <<Ctx(PyNone, PyNone)>>,
      technology_context |-> <<>>]}

\* the three fields normalization knows beyond the seven required ones
Extras3 ==
    [company_size |-> Str(<<"small">>), technologies |-> List(<<"PHP">>),
     contact_info |-> Dict(<<"email">>)]

\* the records an LLM answer can hold, by shape ...
LlmShapes ==
    {Update(Complete7, Extras3),
     Complete7,
     PartialRecord,
     NullNameRecord,
     With(Complete7, "company_name", Str(<<>>)),
     With(Complete7, "pain_points", Str(<<"slow site">>)),
     With(Complete7, "recommendations", List(<<>>)),
     With(Complete7, "industry", Dict(<<>>)),
     With(Complete7, "error", Str(<<"quota">>))}

\* ... and by the value of a score: in range, at the ends, zero, negative,
\* above 10, not a number, null
ScoreValues ==
    {Num(65), Num(10), Num(100), Num(DefaultScore), Num(0), Num(-30), Num(150),
     Str(<<"high">>), PyNone}

\* a record without its score fields
NoScores(d) == [k \in DOMAIN d \ ScoreFields |-> d[k]]

LlmRecords ==
    {With(shape, field, s) : shape \in LlmShapes, field \in ScoreFields, s \in ScoreValues}
        \cup {Without(shape, field) : shape \in LlmShapes, field \in ScoreFields}
        \cup {NoScores(shape) : shape \in LlmShapes}

\* what generate_content can do: raise, or answer with a text
LlmOutcomes ==
    {Gen("raise", <<>>)}
        \cup {Gen("text", text) : text \in {<<>>, <<Prose>>, <<Label>>, <<Trunc>>}}
        \cup {Gen("text", <<FenceJson, NL, Obj(d), NL, Fence>>) : d \in LlmRecords}
        \cup {Gen("text", <<Prose, NL, Deep(d)>>) : d \in LlmShapes}

(***************************************************************************)
(* analyze_website, analyzer.py:14-44, step by step                        *)
(***************************************************************************)
AnalyzeInit ==
    /\ BulkInit
    /\ KbIdle
    /\ CallIdle
    /\ a_pc = "scrape"
    /\ scraped_data = EmptyDict
    /\ rag_analysis = NoRag
    /\ response_text = <<>>
    /\ parsed = Pending
    /\ analysis = Pending
    /\ enriched = EmptyDict
    /\ returned = Pending
    /\ calls = NoCalls

\* analyzer.py:18-20: the scraper is called; a result with 'error' is returned
Scrape(result) ==
    /\ a_pc = "scrape"
    /\ scraped_data' = result
    /\ calls' = [calls EXCEPT !.scrape = @ + 1]
    /\ IF ScrapeFailed(result)
       THEN /\ returned' = Ret("dict", result)
            /\ a_pc' = "returned"
       ELSE /\ a_pc' = "rag"
            /\ UNCHANGED returned
    /\ UNCHANGED <<rag_analysis, response_text, parsed, analysis, enriched,
                   bulkVars, kbVars, callVars>>

\* analyzer.py:23 and 43-44: _perform_rag_analysis returns rag, or raises
PerformRag(rag, ok) ==
    /\ a_pc = "rag"
    /\ calls' = [calls EXCEPT !.rag = @ + 1]
    /\ IF ok
       THEN /\ rag_analysis' = rag
            /\ a_pc' = "llm"
            /\ UNCHANGED returned
       ELSE /\ returned' = Ret("dict", AnalysisFailed)
            /\ a_pc' = "returned"
            /\ UNCHANGED rag_analysis
    /\ UNCHANGED <<scraped_data, response_text, parsed, analysis, enriched,
                   bulkVars, kbVars, callVars>>

\* analyzer.py:26-29 and 43-44: the prompt is built and the LLM client called
CallLlm(gen) ==
    /\ a_pc = "llm"
    /\ calls' = [calls EXCEPT !.llm = @ + 1]
    /\ response_text' = gen.text
    /\ \E result \in {analyze_website_content(gen)} :
          IF result.t = "raise"
          THEN /\ returned' = Ret("dict", AnalysisFailed)
               /\ a_pc' = "returned"
               /\ UNCHANGED <<parsed, analysis>>
          ELSE /\ parsed' = result
               /\ analysis' = result
               /\ a_pc' = "fallback"
               /\ UNCHANGED returned
    /\ UNCHANGED <<scraped_data, rag_analysis, enriched, bulkVars, kbVars, callVars>>

\* analyzer.py:32-36: the fallback where it is needed, then the enrichment
FallbackAndEnrich ==
    /\ a_pc = "fallback"
    /\ IF NeedsFallback(analysis)
       THEN /\ analysis' = Ret("dict", _generate_fallback_analysis(scraped_data, rag_analysis))
            /\ calls' = [calls EXCEPT !.fallback = @ + 1]
       ELSE UNCHANGED <<analysis, calls>>
    /\ enriched' = _enrich_analysis_with_rag(analysis'.d, scraped_data, rag_analysis)
    /\ a_pc' = "normalize"
    /\ UNCHANGED <<scraped_data, rag_analysis, response_text, parsed, returned,
                   bulkVars, kbVars, callVars>>

\* analyzer.py:39-41: the normalization, and the return
Normalize ==
    /\ a_pc = "normalize"
    /\ calls' = [calls EXCEPT !.normalize = @ + 1]
    /\ returned' = Ret("dict", _normalize_analysis(enriched, scraped_data, rag_analysis))
    /\ a_pc' = "returned"
    /\ UNCHANGED <<scraped_data, rag_analysis, response_text, parsed, analysis,
                   enriched, bulkVars, kbVars, callVars>>

AnalyzeNext ==
    \/ \E result \in ScrapeResults : Scrape(result)
    \/ \E rag \in RagResults, ok \in BOOLEAN : PerformRag(rag, ok)
    \/ \E gen \in LlmOutcomes : CallLlm(gen)
    \/ FallbackAndEnrich
    \/ Normalize

SpecAnalyze == AnalyzeInit /\ [][AnalyzeNext]_vars

(***************************************************************************)
(* Properties of analyze_website                                           *)
(***************************************************************************)
\* the fields every analysis record is to carry
OutputFields ==
    {"company_name", "industry", "business_purpose", "company_size", "technologies",
     "contact_info", "pain_points", "recommendations", "digital_maturity_score",
     "urgency_score", "rag_insights"}

\* gemini_client.py:492: 1.0 <= score <= 10.0, in tenths
MinScore == 10
MaxScore == 100

\* C3 as stated: once the scrape has succeeded and the LLM step has been
\* taken, whatever that step did (a complete record, a partial one, an error
\* value, nothing, an exception), analyze_website returns a record that is
\* not an error object and carries every output field.
C3_AllFieldsWhateverLlmDoes ==
    (a_pc = "returned" /\ ~ScrapeFailed(scraped_data) /\ calls.llm = 1) =>
        /\ returned.t = "dict"
        /\ "error" \notin DOMAIN returned.d
        /\ OutputFields \subseteq DOMAIN returned.d

\* the LLM call raised and analyze_website returned its error object
C3_LlmRaisedErrorReturned ==
    /\ a_pc = "returned"
    /\ ~ScrapeFailed(scraped_data)
    /\ calls.llm = 1
    /\ calls.normalize = 0
    /\ returned = Ret("dict", AnalysisFailed)

\* whenever the LLM client returns, with a record or with None, the record
\* analyze_website returns carries every output field
FieldsPresentWhenLlmReturns ==
    (a_pc = "returned" /\ calls.normalize = 1) =>
        /\ returned.t = "dict"
        /\ OutputFields \subseteq DOMAIN returned.d

\* C4: a scrape result with an 'error' key is returned as it is, and in that
\* call the scraper has been invoked once and the retrieval, the LLM client,
\* the fallback and the normalization not at all; no call of analyze_website
\* invokes the scraper twice.
C4_ScrapeErrorReturnedUnchanged ==
    /\ calls.scrape <= 1
    /\ a_pc = "returned" => calls.scrape = 1
    /\ "error" \in DOMAIN scraped_data =>
          /\ a_pc = "returned"
          /\ returned = Ret("dict", scraped_data)
          /\ calls = [NoCalls EXCEPT !.scrape = 1]

\* a failed scrape has been returned
C4_Witness ==
    /\ a_pc = "returned"
    /\ scraped_data = [error |-> Str(<<"Failed to scrape website">>)]
    /\ returned.d = scraped_data

\* C6 as stated: whatever score the record handed to normalization holds, the
\* record analyze_website returns holds a number from 1 to 10, and 5.0 only
\* where the score handed in was absent, not a number, or 5.0 itself.
C6_ScoresClamped ==
    (a_pc = "returned" /\ calls.normalize = 1) =>
        \A field \in ScoreFields :
            /\ returned.d[field].t = "num"
            /\ MinScore <= returned.d[field].n
            /\ returned.d[field].n <= MaxScore
            /\ returned.d[field].n = DefaultScore =>
                  \/ field \notin DOMAIN enriched
                  \/ enriched[field].t # "num"
                  \/ enriched[field].n = DefaultScore

\* a score of 15.0 given by the LLM has been returned as it came
C6_ScoreAboveTenReturned ==
    /\ a_pc = "returned"
    /\ calls.normalize = 1
    /\ calls.fallback = 0
    /\ parsed.d["digital_maturity_score"] = Num(150)
    /\ returned.d["digital_maturity_score"] = Num(150)

(***************************************************************************)
(* _normalize_analysis applied to records of every shape                   *)
(***************************************************************************)
\* how a field can stand in a record
FieldStates == {"absent", "empty", "zero", "filled"}

\* [], '' or {} as the field would hold it
EmptyOf(v) == Value(v.t, 0, <<>>)

\* d with the field in the given state; `filled` is the value it has when filled
Put(d, key, state, filled) ==
    CASE state = "absent" -> Without(d, key)
      [] state = "empty" -> With(d, key, EmptyOf(filled))
      [] state = "zero" -> With(d, key, Num(0))
      [] state = "filled" -> With(d, key, filled)

\* records with the seven required fields, at most one of them not filled ...
RequiredVariants ==
    {Complete7, With(Complete7, "urgency_score", Num(150)),
     With(Complete7, "company_name", PyNone)}
        \cup {Put(Complete7, key, state, Complete7[key]) :
                 key \in RequiredFields, state \in FieldStates}

\* ... and the three other fields in every state
NormalizeInputs ==
    {Put(Put(Put(Update(base, Extras3), "company_size", s1, Extras3["company_size"]),
             "technologies", s2, Extras3["technologies"]),
         "contact_info", s3, Extras3["contact_info"]) :
        base \in RequiredVariants, s1 \in FieldStates, s2 \in FieldStates,
        s3 \in FieldStates}

\* the scrape results handed to the normalization: those of the scraper with
\* a title and technologies, and one without any field
NormalizeScrapes ==
    {ScrapeOk(t, d, <<>>, tech) :
        t \in Titles, d \in Descriptions, tech \in Technologies} \cup {EmptyDict}

NormalizeInit ==
    /\ BulkInit
    /\ KbIdle
    /\ CallIdle
    /\ a_pc = "normalize"
    /\ enriched \in NormalizeInputs
    /\ scraped_data \in NormalizeScrapes
    /\ rag_analysis \in RagResults
    /\ response_text = <<>>
    /\ parsed = Pending
    /\ analysis = Pending
    /\ returned = Pending
    /\ calls = NoCalls

NormalizeNext == Normalize

SpecNormalize == NormalizeInit /\ [][NormalizeNext]_vars

\* C5 as stated: a record that passes the completeness check comes back from
\* the normalization equal to what went in.
C5_NoOpOnCompleteRecord ==
    (a_pc = "returned" /\ _is_analysis_complete(enriched)) => returned.d = enriched

\* C5 (amended): on a record that passes the completeness check, the
\* normalization adds or replaces nothing but company_size, technologies and
\* contact_info: every other field comes back as it went in, each of the
\* three comes back as it went in when it held a non-empty value, and
\* otherwise company_size becomes 'unknown' where absent or empty,
\* technologies the scraped technologies, contact_info the scraped contact
\* info (or {}) where absent or empty.
C5_OnlyExtrasFilled ==
    (a_pc = "returned" /\ _is_analysis_complete(enriched)) =>
        /\ DOMAIN returned.d = DOMAIN enriched \cup DOMAIN Extras3
        /\ \A key \in DOMAIN enriched \ DOMAIN Extras3 :
              returned.d[key] = enriched[key]
        /\ \A key \in DOMAIN enriched \cap DOMAIN Extras3 :
              ~Falsy(enriched[key]) => returned.d[key] = enriched[key]
        /\ ("company_size" \notin DOMAIN enriched \/ IsBlank(enriched["company_size"]))
              => returned.d["company_size"] = Str(<<"unknown">>)
        /\ ("technologies" \notin DOMAIN enriched \/ Falsy(enriched["technologies"]))
              => returned.d["technologies"] = Get(scraped_data, "technologies", List(<<>>))
        /\ ("contact_info" \notin DOMAIN enriched \/ IsBlank(enriched["contact_info"]))
              => returned.d["contact_info"] = ContactDefault(scraped_data)

\* a complete record without company_size has come back with company_size
C5_Witness ==
    /\ a_pc = "returned"
    /\ _is_analysis_complete(enriched)
    /\ "company_size" \notin DOMAIN enriched
    /\ enriched["digital_maturity_score"] = Num(0)
    /\ returned.d["company_size"] = Str(<<"unknown">>)
    /\ returned.d["digital_maturity_score"] = Num(0)

(***************************************************************************)
(* The knowledge base: app/rag/knowledge_base.py                           *)
(*                                                                         *)
(* An item is its content; the embedding model and the cosine similarity   *)
(* are a fixed table from a query and a content to a similarity in tenths. *)
(***************************************************************************)
\* most items in the knowledge base
MaxItems == 3
\* largest top_k asked for
MaxK == 3

\* knowledge_base.py:194: threshold: float = 0.3, in tenths
DefaultThreshold == 3

KbContents == {"web", "cloud", "security"}
Queries == {"q1", "q2"}
Thresholds == {DefaultThreshold, 2 * DefaultThreshold + 1}
TopKs == 0..MaxK

\* embedding_model.encode: one embedding per content
Encode(contents) == [i \in 1..Len(contents) |-> <<"embedding", contents[i]>>]

\* cosine_similarity(query_embedding, embeddings)[0][i], in tenths
Similarity(query, embedding) ==
    LET content == embedding[2]
    IN  IF query = "q1"
        THEN (CASE content = "web" -> 8 [] content = "cloud" -> 5 [] OTHER -> 2)
        ELSE (CASE content = "web" -> 3 [] content = "cloud" -> 3 [] OTHER -> 9)

\* np.argsort(similarities): the indices by ascending similarity, equal
\* similarities in index order (the insertion sort numpy uses on short arrays)
ArgSort(similarities) ==
    LET n == Len(similarities)
        Before(j, i) ==
            \/ similarities[j] < similarities[i]
            \/ similarities[j] = similarities[i] /\ j < i
        Rank(i) == 1 + Cardinality({j \in 1..n : Before(j, i)})
    IN  [r \in 1..n |-> CHOOSE i \in 1..n : Rank(i) = r]

\* seq[start:] with Python's rules for a negative, zero or too large start
PySliceFrom(seq, start) ==
    LET lo == IF start < 0 THEN Max(Len(seq) + start, 0) ELSE Min(start, Len(seq))
    IN  SubSeq(seq, lo + 1, Len(seq))

\* seq[::-1]
Reverse(seq) == [i \in 1..Len(seq) |-> seq[Len(seq) + 1 - i]]

\* one entry of the result: the item's place in knowledge_data (from 1), its
\* content and its similarity to the query
ContextItem(at, content, similarity) ==
    [idx |-> at, content |-> content, similarity |-> similarity]

\* get_relevant_context, knowledge_base.py:194-224
get_relevant_context(data, emb, query, top_k, threshold) ==
    IF data = <<>> \/ emb = <<>> THEN <<>>
    ELSE LET similarities == [i \in 1..Len(emb) |-> Similarity(query, emb[i])]
             top_indices == Reverse(PySliceFrom(ArgSort(similarities), 0 - top_k))
             Relevant(at) == similarities[at] > threshold
             Item(k) == ContextItem(top_indices[k], data[top_indices[k]],
                                    similarities[top_indices[k]])
         IN  SelectSeq([k \in 1..Len(top_indices) |-> Item(k)],
                       LAMBDA item : Relevant(item.idx))

\* after KnowledgeBase(): the loaded items (the default item when no file is
\* found) and their embeddings; no call recorded
KbInit ==
    /\ BulkInit
    /\ AnalysisIdle
    /\ CallIdle
    /\ knowledge_data \in {<<c>> : c \in KbContents}
    /\ embeddings = Encode(knowledge_data)
    /\ last_call = NoCall
    /\ prev_call = NoCall

\* add_knowledge, knowledge_base.py:245-255: the item is appended and the
\* embeddings are generated again.  The recorded calls are those on the
\* present corpus.
add_knowledge(content) ==
    /\ Len(knowledge_data) < MaxItems
    /\ knowledge_data' = Append(knowledge_data, content)
    /\ embeddings' = Encode(knowledge_data')
    /\ last_call' = NoCall
    /\ prev_call' = NoCall
    /\ UNCHANGED <<bulkVars, analysisVars, callVars>>

\* one call of get_relevant_context(query, top_k, threshold)
GetRelevantContext(query, top_k, threshold) ==
    /\ prev_call' = last_call
    /\ last_call' = [corpus |-> knowledge_data, query |-> query, top_k |-> top_k,
                     threshold |-> threshold,
                     result |-> get_relevant_context(knowledge_data, embeddings,
                                                     query, top_k, threshold)]
    /\ UNCHANGED <<knowledge_data, embeddings, bulkVars, analysisVars, callVars>>

KbNext ==
    \/ \E content \in KbContents : add_knowledge(content)
    \/ \E query \in Queries, top_k \in TopKs, threshold \in Thresholds :
          GetRelevantContext(query, top_k, threshold)

SpecKB == KbInit /\ [][KbNext]_vars

\* the places in knowledge_data of the items of a result
Returned(call) == {call.result[k].idx : k \in 1..Len(call.result)}

\* every item is above the threshold, and the items are in non-increasing
\* order of similarity
AboveThresholdSorted(call) ==
    /\ \A k \in 1..Len(call.result) : call.result[k].similarity > call.threshold
    /\ \A k \in 1..(Len(call.result) - 1) :
          call.result[k].similarity >= call.result[k + 1].similarity

\* C7 as stated: for every top_k >= 0 and threshold, get_relevant_context
\* returns at most top_k items, each with a similarity strictly above the
\* threshold, in non-increasing order of similarity (an empty list when no
\* item clears the threshold).
C7_AtMostTopKAboveThreshold ==
    last_call # NoCall =>
        /\ Len(last_call.result) <= last_call.top_k
        /\ AboveThresholdSorted(last_call)

\* a call with top_k = 0 has returned two items
C7_TopKZeroReturnsItems ==
    /\ last_call # NoCall
    /\ last_call.top_k = 0
    /\ Len(last_call.result) = 2

\* what holds of every call: the items are above the threshold and in
\* order, they are the best of the corpus, and they are at most top_k when
\* top_k is 1 or more
TopKHoldsFromOne ==
    last_call # NoCall =>
        /\ AboveThresholdSorted(last_call)
        /\ last_call.top_k >= 1 => Len(last_call.result) <= last_call.top_k
        /\ last_call.top_k = 0 =>
              Len(last_call.result) =
                  Cardinality({i \in 1..Len(knowledge_data) :
                      Similarity(last_call.query, embeddings[i]) > last_call.threshold})

\* C8 as stated: of two calls on the same corpus with the same query and
\* threshold, the one with the larger top_k (the smaller may be 0) returns
\* every item the other returns.
C8_MonotonicTopK ==
    (/\ prev_call # NoCall
     /\ prev_call.corpus = last_call.corpus
     /\ prev_call.query = last_call.query
     /\ prev_call.threshold = last_call.threshold
     /\ prev_call.top_k <= last_call.top_k)
        => Returned(prev_call) \subseteq Returned(last_call)

\* a call with top_k = 0 returned two items, the next call on the same
\* corpus, query and threshold with top_k = 1 returns one
C8_ZeroThenOneLosesAnItem ==
    /\ prev_call # NoCall
    /\ prev_call.corpus = last_call.corpus
    /\ prev_call.query = last_call.query
    /\ prev_call.threshold = last_call.threshold
    /\ prev_call.top_k = 0
    /\ last_call.top_k = 1
    /\ Len(prev_call.result) = 2
    /\ Len(last_call.result) = 1

\* what holds of two such calls when the smaller top_k is 1 or more
MonotonicFromOne ==
    (/\ prev_call # NoCall
     /\ prev_call.corpus = last_call.corpus
     /\ prev_call.query = last_call.query
     /\ prev_call.threshold = last_call.threshold
     /\ 1 <= prev_call.top_k
     /\ prev_call.top_k <= last_call.top_k)
        => Returned(prev_call) \subseteq Returned(last_call)

(***************************************************************************)
(* Status queries (bulk.py:129-151)                                        *)
(***************************************************************************)
\* Python's round() of the fraction n / d to an integer: to the nearest, a
\* tie to the even neighbour
RoundHalfEven(n, d) ==
    LET q == n \div d
        r == n % d
    IN  IF 2 * r < d THEN q
        ELSE IF 2 * r > d THEN q + 1
        ELSE IF q % 2 = 0 THEN q ELSE q + 1

\* the progress computed from the completed counter alone
progress_percentage_CompletedOnly(op) ==
    RoundHalfEven(op.completed * 1000, op.total_urls)

\* bulk.py:139 and 147: round((completed + failed) / total_urls * 100, 1),
\* in tenths of a percent
progress_percentage(op) ==
    RoundHalfEven((op.completed + op.failed) * 1000, op.total_urls)

\* bulk.py:129-151: the status of a job, read from the tracking table; the
\* handler has no await, so it runs between two steps of the tasks
get_bulk_status(bulk_id) ==
    /\ IF bulk_id \notin bulk_operations
       THEN /\ response' = Response("bulk_status", 404, None)
            /\ UNCHANGED reported
       ELSE /\ response' = Response("bulk_status", 200, bulk_id)
            /\ reported' = [bulk_id |-> bulk_id,
                            status |-> operation[bulk_id].status,
                            completed |-> operation[bulk_id].completed,
                            failed |-> operation[bulk_id].failed,
                            total_urls |-> operation[bulk_id].total_urls,
                            progress_percentage |->
                                progress_percentage(operation[bulk_id])]
    /\ UNCHANGED <<bulk_operations, operation, analyses, nextId, pc, idx,
                   analysis_result, outcomes, peak, request,
                   analysisVars, kbVars, callVars>>

StatusQuery == \E b \in BulkIds : get_bulk_status(b)

\* the requests of 1..MaxUrls usable URLs: each one is accepted as a job
JobRequests ==
    {[shape |-> "dict", urls |-> [k \in 1..n |-> <<"https://", "a.com">>]] :
        n \in 1..MaxUrls}

\* bulk.py:51-127 on a request that is accepted
SubmitJob ==
    \E request_data \in JobRequests :
        /\ bulk_analyze_urls(request_data, FreshBulkId, TRUE)
        /\ UNCHANGED <<request, analysisVars, kbVars, callVars>>

StatusNext == SubmitJob \/ TaskStep \/ StatusQuery

\* the bulk coordinator with status queries between any two of its steps
SpecStatus == BulkOnlyInit /\ [][StatusNext]_vars

\* the number of URLs of job b that the task has counted
Counted(b) ==
    IF pc[b] = "done" THEN operation[b].total_urls
    ELSE IF pc[b] \in {"mark", "analyze", "record", "handler", "count"}
         THEN idx[b] - 1
         ELSE 0

\* C11, the counters: at every moment the two counters of a job together
\* count each URL the task is through with once: completed is the number of
\* those whose analysis returned a record, failed the number of the others,
\* and their sum never exceeds total_urls.
CountersExact ==
    \A b \in bulk_operations :
        /\ operation[b].completed =
              Cardinality({k \in 1..Counted(b) : outcomes[b][k]})
        /\ operation[b].failed =
              Cardinality({k \in 1..Counted(b) : ~outcomes[b][k]})
        /\ operation[b].completed + operation[b].failed = Counted(b)
        /\ operation[b].completed + operation[b].failed <= operation[b].total_urls
        /\ operation[b].status = "completed" =>
              progress_percentage(operation[b]) = 1000

\* C11, the reports: a status response gives a progress between 0 and 100
\* computed from the counters of that moment
ReportInRange ==
    reported # NoReport =>
        /\ reported.progress_percentage \in 0..1000
        /\ reported.completed + reported.failed <= reported.total_urls
        /\ reported.status = "completed" => reported.progress_percentage = 1000

\* C11, between two queries: a status response for the job of the previous
\* status response never shows less progress
ReportNeverDecreases ==
    (reported.bulk_id # "None" /\ reported'.bulk_id = reported.bulk_id) =>
        /\ reported'.progress_percentage >= reported.progress_percentage
        /\ reported'.completed >= reported.completed
        /\ reported'.failed >= reported.failed

\* C11 (bulk counters and progress): with status queries anywhere between
\* the steps of the tasks, completed + failed <= total_urls, every URL the
\* task is through with is counted once in one of the two counters, and the
\* reported progress is within [0, 100], never decreases from one query of a
\* job to the next, and is 100 when the job is 'completed'.
C11_CountersAndProgress ==
    /\ [](CountersExact /\ ReportInRange)
    /\ [][ReportNeverDecreases]_vars

\* a query answered 50.0 for a job of two URLs whose first URL failed, and
\* the job has since been completed
C11_Witness ==
    \E b \in BulkIds :
        /\ reported.bulk_id = b
        /\ reported.progress_percentage = 500
        /\ reported.failed = 1
        /\ operation[b].status = "completed"
        /\ operation[b].completed = 1

(***************************************************************************)
(* Industry detection (analyzer.py:83-103)                                 *)
(*                                                                         *)
(* A text is the sequence of its characters, so that lower() and the       *)
(* substring test `keyword in content_lower` are computed as Python does.  *)
(***************************************************************************)
\* the most words in a content
MaxWords == 2

\* str.lower() on one character
LowerChar(c) ==
    CASE c = "A" -> "a" [] c = "B" -> "b" [] c = "C" -> "c" [] c = "D" -> "d"
      [] c = "E" -> "e" [] c = "F" -> "f" [] c = "G" -> "g" [] c = "H" -> "h"
      [] c = "I" -> "i" [] c = "J" -> "j" [] c = "K" -> "k" [] c = "L" -> "l"
      [] c = "M" -> "m" [] c = "N" -> "n" [] c = "O" -> "o" [] c = "P" -> "p"
      [] c = "Q" -> "q" [] c = "R" -> "r" [] c = "S" -> "s" [] c = "T" -> "t"
      [] c = "U" -> "u" [] c = "V" -> "v" [] c = "W" -> "w" [] c = "X" -> "x"
      [] c = "Y" -> "y" [] c = "Z" -> "z" [] OTHER -> c

\* analyzer.py:85: content.lower()
Lower(text) == [p \in 1..Len(text) |-> LowerChar(text[p])]

\* Python's `keyword in text` on strings: keyword is a substring of text
In(keyword, text) ==
    \E p \in 1..(Len(text) - Len(keyword) + 1) :
        SubSeq(text, p, p + Len(keyword) - 1) = keyword

\* analyzer.py:87-97: the keyword table, in the order of the dict literal
industry_keywords ==
    <<
      [industry |-> "healthcare", keywords |-> <<
          <<"m", "e", "d", "i", "c", "a", "l">>,
          <<"h", "e", "a", "l", "t", "h">>,
          <<"d", "o", "c", "t", "o", "r">>,
          <<"p", "a", "t", "i", "e", "n", "t">>,
          <<"c", "l", "i", "n", "i", "c">>,
          <<"h", "o", "s", "p", "i", "t", "a", "l">>,
          <<"p", "h", "a", "r", "m", "a", "c", "y">> >>],
      [industry |-> "finance", keywords |-> <<
          <<"b", "a", "n", "k">>,
          <<"f", "i", "n", "a", "n", "c", "i", "a", "l">>,
          <<"i", "n", "v", "e", "s", "t", "m", "e", "n", "t">>,
          <<"l", "o", "a", "n">>,
          <<"c", "r", "e", "d", "i", "t">>,
          <<"i", "n", "s", "u", "r", "a", "n", "c", "e">>,
          <<"t", "r", "a", "d", "i", "n", "g">> >>],
      [industry |-> "retail", keywords |-> <<
          <<"s", "h", "o", "p">>,
          <<"s", "t", "o", "r", "e">>,
          <<"p", "r", "o", "d", "u", "c", "t">>,
          <<"s", "a", "l", "e">>,
          <<"d", "i", "s", "c", "o", "u", "n", "t">>,
          <<"c", "a", "r", "t">>,
          <<"c", "h", "e", "c", "k", "o", "u", "t">>,
          <<"e", "c", "o", "m", "m", "e", "r", "c", "e">> >>],
      [industry |-> "manufacturing", keywords |-> <<
          <<"m", "a", "n", "u", "f", "a", "c", "t", "u", "r", "i", "n", "g">>,
          <<"f", "a", "c", "t", "o", "r", "y">>,
          <<"p", "r", "o", "d", "u", "c", "t", "i", "o", "n">>,
          <<"i", "n", "d", "u", "s", "t", "r", "i", "a", "l">>,
          <<"m", "a", "c", "h", "i", "n", "e", "r", "y">> >>],
      [industry |-> "education", keywords |-> <<
          <<"s", "c", "h", "o", "o", "l">>,
          <<"u", "n", "i", "v", "e", "r", "s", "i", "t", "y">>,
          <<"c", "o", "u", "r", "s", "e">>,
          <<"s", "t", "u", "d", "e", "n", "t">>,
          <<"l", "e", "a", "r", "n", "i", "n", "g">>,
          <<"e", "d", "u", "c", "a", "t", "i", "o", "n">> >>],
      [industry |-> "real_estate", keywords |-> <<
          <<"p", "r", "o", "p", "e", "r", "t", "y">>,
          <<"r", "e", "a", "l", " ", "e", "s", "t", "a", "t", "e">>,
          <<"h", "o", "m", "e">>,
          <<"h", "o", "u", "s", "e">>,
          <<"r", "e", "n", "t">>,
          <<"b", "u", "y">>,
          <<"r", "e", "a", "l", "t", "o", "r">> >>],
      [industry |-> "restaurant", keywords |-> <<
          <<"r", "e", "s", "t", "a", "u", "r", "a", "n", "t">>,
          <<"f", "o", "o", "d">>,
          <<"m", "e", "n", "u">>,
          <<"d", "i", "n", "i", "n", "g">>,
          <<"c", "a", "f", "e">>,
          <<"d", "e", "l", "i", "v", "e", "r", "y">>,
          <<"c", "a", "t", "e", "r", "i", "n", "g">> >>],
      [industry |-> "legal", keywords |-> <<
          <<"l", "a", "w">>,
          <<"l", "e", "g", "a", "l">>,
          <<"a", "t", "t", "o", "r", "n", "e", "y">>,
          <<"l", "a", "w", "y", "e", "r">>,
          <<"c", "o", "u", "r", "t">>,
          <<"l", "e", "g", "a", "l", " ", "s", "e", "r", "v", "i", "c", "e", "s">> >>],
      [industry |-> "technology", keywords |-> <<
          <<"s", "o", "f", "t", "w", "a", "r", "e">>,
          <<"t", "e", "c", "h">>,
          <<"I", "T">>,
          <<"d", "e", "v", "e", "l", "o", "p", "m", "e", "n", "t">>,
          <<"p", "r", "o", "g", "r", "a", "m", "m", "i", "n", "g">>,
          <<"d", "i", "g", "i", "t", "a", "l">> >>] >>

\* analyzer.py:100: any(keyword in content_lower for keyword in keywords)
AnyKeyword(keywords, content_lower) ==
    \E k \in 1..Len(keywords) : In(keywords[k], content_lower)

RECURSIVE DetectFrom(_, _)
\* analyzer.py:99-103: the loop over the table from entry at on
DetectFrom(at, content_lower) ==
    IF at > Len(industry_keywords) THEN None
    ELSE IF AnyKeyword(industry_keywords[at].keywords, content_lower)
         THEN industry_keywords[at].industry
         ELSE DetectFrom(at + 1, content_lower)

\* a detection that keeps the last industry that matches
_detect_industry_LastMatch(content) ==
    LET content_lower == Lower(content)
        hits == {at \in 1..Len(industry_keywords) :
                    AnyKeyword(industry_keywords[at].keywords, content_lower)}
    IN  IF hits = {} THEN None
        ELSE industry_keywords[CHOOSE at \in hits : \A o \in hits : o <= at].industry

\* analyzer.py:83-103
_detect_industry(content) ==
    LET content_lower == Lower(content)
    IN  DetectFrom(1, content_lower)

\* words a page may hold: in mixed case, with a keyword inside a longer word,
\* with a two-word keyword, with none, and the upper-case "IT"
IndustryWords ==
    { <<"M", "e", "d", "i", "c", "a", "l">>,
      <<"B", "A", "N", "K">>,
      <<"s", "h", "o", "p">>,
      <<"l", "a", "w", "y", "e", "r">>,
      <<"I", "T">>,
      <<"H", "o", "m", "e", "m", "a", "d", "e">>,
      <<"t", "h", "i", "n", "g", "s">>,
      <<"r", "e", "a", "l", " ", "e", "s", "t", "a", "t", "e">>,
      <<"s", "o", "f", "t", "w", "a", "r", "e">>,
      <<"S", "a", "l", "e">> }

RECURSIVE JoinWords(_)
\* the words of a sequence, one space between two of them
JoinWords(ws) ==
    IF ws = <<>> THEN <<>>
    ELSE IF Len(ws) = 1 THEN ws[1]
    ELSE ws[1] \o <<" ">> \o JoinWords(Tail(ws))

IndustryContents == {JoinWords(ws) : ws \in SeqsUpTo(IndustryWords, MaxWords)}

\* one content; _detect_industry has not been called on it
IndustryInit ==
    /\ BulkInit
    /\ AnalysisIdle
    /\ KbIdle
    /\ f_in \in IndustryContents
    /\ f_out = "pending"
    /\ f_prev = "pending"

\* analyzer.py:66: a call of _detect_industry on the content
DetectIndustry ==
    /\ f_out' = _detect_industry(f_in)
    /\ f_prev' = f_out
    /\ UNCHANGED <<f_in, bulkVars, analysisVars, kbVars>>

IndustryNext == DetectIndustry

SpecIndustry == IndustryInit /\ [][IndustryNext]_vars

\* the order of the industries as the claim lists it
IndustryOrder ==
    <<"healthcare", "finance", "retail", "manufacturing", "education",
      "real_estate", "restaurant", "legal", "technology">>

\* the industries (by position in IndustryOrder) with a keyword in the text
Matching(content_lower) ==
    {at \in 1..Len(IndustryOrder) :
        \E e \in 1..Len(industry_keywords) :
            /\ industry_keywords[e].industry = IndustryOrder[at]
            /\ \E k \in 1..Len(industry_keywords[e].keywords) :
                  In(industry_keywords[e].keywords[k], content_lower)}

\* C12 (industry detection): _detect_industry returns the first industry, in
\* the order healthcare, finance, retail, manufacturing, education,
\* real_estate, restaurant, legal, technology, one of whose keywords occurs
\* in the lower-cased content, None when no keyword of any industry occurs,
\* and a second call on the same content returns what the first returned.
C12_FirstMatchInTableOrder ==
    f_out # "pending" =>
        /\ LET hits == Matching(Lower(f_in))
           IN  IF hits = {} THEN f_out = None
               ELSE f_out = IndustryOrder[CHOOSE at \in hits : \A o \in hits : at <= o]
        /\ f_prev # "pending" => f_prev = f_out

\* "BANK lawyer" holds keywords of finance and of legal: finance, both times
C12_Witness ==
    /\ f_in = JoinWords(<< <<"B", "A", "N", "K">>, <<"l", "a", "w", "y", "e", "r">> >>)
    /\ Cardinality(Matching(Lower(f_in))) = 2
    /\ f_out = "finance"
    /\ f_prev = "finance"

(***************************************************************************)
(* The LLM's record on its way through analyze_website                     *)
(***************************************************************************)
\* the LLM answered with a fenced JSON object that the parser accepted and
\* that holds neither score
ValidWithoutScores ==
    /\ a_pc = "returned"
    /\ calls.normalize = 1
    /\ Len(response_text) = 5
    /\ response_text[1] = FenceJson
    /\ parsed.t = "dict"
    /\ ValidationFields \subseteq DOMAIN parsed.d
    /\ DOMAIN parsed.d \cap ScoreFields = {}

\* C13 as stated: when the LLM text is a fenced JSON object with
\* company_name, industry, business_purpose, pain_points and recommendations
\* and without the score fields, the record analyze_website returns holds the
\* parsed values of those five fields and the two scores 5.0.
C13_ParsedFieldsKept ==
    ValidWithoutScores =>
        /\ returned.t = "dict"
        /\ \A f \in ValidationFields : returned.d[f] = parsed.d[f]
        /\ \A f \in ScoreFields : returned.d[f] = Num(DefaultScore)

\* the parsed record without scores went through the fallback: the record
\* returned has the scores 5.0 and a company name that is not the parsed one
C13_ParsedFieldsReplaced ==
    /\ ValidWithoutScores
    /\ parsed.d = NoScores(Complete7)
    /\ calls.fallback = 1
    /\ returned.d["company_name"] # parsed.d["company_name"]
    /\ \A f \in ScoreFields : returned.d[f] = Num(DefaultScore)

(***************************************************************************)
(* The confidence score (analyzer.py:286-308)                              *)
(*                                                                         *)
(* Similarities and scores are in hundredths. The mean of n similarities   *)
(* is kept exact: a score is a fraction num / den with den = 100 * n.      *)
(***************************************************************************)
\* the most items in general_context
MaxContexts == 2

\* a context item: with its 'similarity' (in hundredths), or without the key
SimCtx(has, similarity) == [has |-> has, similarity |-> similarity]

\* analyzer.py:305: ctx.get("similarity", 0)
SimilarityOf(ctx) == IF ctx.has THEN ctx.similarity ELSE 0

RECURSIVE SumSimilarity(_)
\* analyzer.py:305: sum(ctx.get("similarity", 0) for ctx in general_contexts)
SumSimilarity(ctxs) ==
    IF ctxs = <<>> THEN 0 ELSE SimilarityOf(Head(ctxs)) + SumSimilarity(Tail(ctxs))

\* analyzer.py:286-308
_calculate_confidence_score(rag) ==
    LET general_contexts == rag.general_context
        n == IF general_contexts = <<>> THEN 1 ELSE Len(general_contexts)
        base == (IF rag.general_context # <<>> THEN 30 ELSE 0)
              + (IF rag.detected_industry # None THEN 30 ELSE 0)
              + (IF rag.technology_context # <<>> THEN 20 ELSE 0)
        \* min(avg_similarity, 0.2), times n
        bonus == IF general_contexts # <<>>
                 THEN Min(SumSimilarity(general_contexts), 20 * n)
                 ELSE 0
        score == base * n + bonus
    IN  [num |-> Min(score, 100 * n), den |-> 100 * n]

\* similarities in [-1, 1]: the ends, zero, around 0.2, and a missing key
SimilarityValues == {-100, -40, 0, 19, 20, 90, 100}

ContextItems ==
    {SimCtx(TRUE, s) : s \in SimilarityValues} \cup {SimCtx(FALSE, 0)}

\* the retrieval contexts: any general matches, an industry or none, a
\* technology match or none
RetrievalContexts ==
    [general_context : SeqsUpTo(ContextItems, MaxContexts),
     detected_industry : {None, "healthcare"},
     technology_context : {<<>>, <<SimCtx(TRUE, 85)>>}]

ConfidenceInit ==
    /\ BulkInit
    /\ AnalysisIdle
    /\ KbIdle
    /\ f_in \in RetrievalContexts
    /\ f_out = [num |-> 0, den |-> 0]
    /\ f_prev = [num |-> 0, den |-> 0]

\* analyzer.py:185: a call of _calculate_confidence_score
CalculateConfidence ==
    /\ f_out.den = 0
    /\ f_out' = _calculate_confidence_score(f_in)
    /\ UNCHANGED <<f_in, f_prev, bulkVars, analysisVars, kbVars>>

ConfidenceNext == CalculateConfidence

SpecConfidence == ConfidenceInit /\ [][ConfidenceNext]_vars

\* the mean similarity of the general matches is at least 0.2
MeanAtLeastFifth(rag) ==
    /\ rag.general_context # <<>>
    /\ SumSimilarity(rag.general_context) >= 20 * Len(rag.general_context)

\* C14 as stated: the confidence score is within [0, 1] for every retrieval
\* context with similarities in [-1, 1]; it is at least 0.8 when general
\* matches, an industry and technology matches are all present and the mean
\* similarity is at least 0.2; it is at most 0.5 when there is neither an
\* industry nor a technology match.
C14_ConfidenceWithinUnit ==
    f_out.den # 0 =>
        /\ 0 <= f_out.num
        /\ f_out.num <= f_out.den
        /\ (/\ MeanAtLeastFifth(f_in)
            /\ f_in.detected_industry # None
            /\ f_in.technology_context # <<>>) => 10 * f_out.num >= 8 * f_out.den
        /\ (f_in.detected_industry = None /\ f_in.technology_context = <<>>)
              => 10 * f_out.num <= 5 * f_out.den

\* one general match of similarity -1.0 and nothing else: the score is -0.7
C14_NegativeScore ==
    /\ f_in = [general_context |-> <<SimCtx(TRUE, -100)>>,
               detected_industry |-> None, technology_context |-> <<>>]
    /\ f_out = [num |-> -70, den |-> 100]

\* the score never exceeds 1, and the two thresholds of the claim hold
ConfidenceUpperBounds ==
    f_out.den # 0 =>
        /\ f_out.num <= f_out.den
        /\ (/\ MeanAtLeastFifth(f_in)
            /\ f_in.detected_industry # None
            /\ f_in.technology_context # <<>>) => f_out.num = f_out.den
        /\ (f_in.detected_industry = None /\ f_in.technology_context = <<>>)
              => 10 * f_out.num <= 5 * f_out.den

(***************************************************************************)
(* Loading the knowledge base (knowledge_base.py:10-44, 186-192)           *)
(***************************************************************************)
\* the knowledge documents, in the order _load_knowledge_base reads them
KnowledgeFiles ==
    <<"it_services_knowledge.json", "technology_database.json",
      "industry_benchmark.json", "proposal_templates.json", "email_templates.json">>

\* knowledge_base.py:46-173: the contents of the items a document yields;
\* the last document holds no entry that becomes an item
FileItems(file) ==
    CASE file = "it_services_knowledge.json" -> <<"web">>
      [] file = "technology_database.json" -> <<"cloud">>
      [] file = "industry_benchmark.json" -> <<"security">>
      [] file = "proposal_templates.json" -> <<"web">>
      [] OTHER -> <<>>

\* knowledge_base.py:175-184
_get_default_knowledge == <<"default">>

\* embeddings that are left as they were
_generate_embeddings_Stale(data, old) == old

\* knowledge_base.py:186-192: nothing without data, else one encode call
_generate_embeddings(data, old) == IF data = <<>> THEN old ELSE Encode(data)

RECURSIVE LoadFiles(_, _)
\* knowledge_base.py:22-37: the items of the documents that exist, from the
\* document at on
LoadFiles(at, present) ==
    IF at > Len(KnowledgeFiles) THEN <<>>
    ELSE (IF KnowledgeFiles[at] \in present THEN FileItems(KnowledgeFiles[at]) ELSE <<>>)
            \o LoadFiles(at + 1, present)

\* the knowledge directory holds any of the documents, the object is not
\* constructed yet
KbLoadInit ==
    /\ BulkInit
    /\ AnalysisIdle
    /\ KbIdle
    /\ f_in \in SUBSET {KnowledgeFiles[at] : at \in 1..Len(KnowledgeFiles)}
    /\ f_out = "new"
    /\ f_prev = "new"

\* knowledge_base.py:11-44: KnowledgeBase(), that is _load_knowledge_base
_load_knowledge_base ==
    /\ f_out = "new"
    /\ LET loaded == LoadFiles(1, f_in)
           data == IF loaded = <<>> THEN _get_default_knowledge ELSE loaded
       IN  /\ knowledge_data' = data
           /\ embeddings' = _generate_embeddings(data, embeddings)
    /\ f_out' = "loaded"
    /\ UNCHANGED <<f_in, f_prev, last_call, prev_call, bulkVars, analysisVars>>

\* add_knowledge on the constructed object
AddKnowledge ==
    /\ f_out = "loaded"
    /\ \E content \in KbContents : add_knowledge(content)

KbLoadNext == _load_knowledge_base \/ AddKnowledge

SpecKbLoad == KbLoadInit /\ [][KbLoadNext]_vars

\* C15 (knowledge store): once the knowledge base is loaded, from whatever
\* documents there are, and after every add_knowledge since, the store holds
\* at least one item and as many embeddings as items.
C15_OneEmbeddingPerItem ==
    f_out = "loaded" =>
        /\ Len(knowledge_data) >= 1
        /\ Len(embeddings) = Len(knowledge_data)

\* loaded from an empty directory, then two items added
C15_Witness ==
    /\ f_in = {}
    /\ f_out = "loaded"
    /\ Len(knowledge_data) = 3
    /\ knowledge_data[1] = "default"
    /\ Len(embeddings) = 3

(***************************************************************************)
(* A failing LLM call in analyze_website                                   *)
(***************************************************************************)
\* analyze_website has returned and its LLM call raised
LlmRaised ==
    /\ a_pc = "returned"
    /\ calls.llm = 1
    /\ parsed = Pending

\* analyze_website has returned and its LLM call returned a record with an
\* 'error' key
LlmReturnedError ==
    /\ a_pc = "returned"
    /\ calls.llm = 1
    /\ parsed.t = "dict"
    /\ "error" \in DOMAIN parsed.d

ArgSorts(similarities) ==
    LET n == Len(similarities)
    IN  {p \in [1..n -> 1..n] :
            /\ \A i, j \in 1..n : i # j => p[i] # p[j]
            /\ \A i \in 1..(n - 1) : similarities[p[i]] <= similarities[p[i + 1]]}

\* embeddings.py:41-45: the pairs for the top indices; an index is the
\* candidate's place from 1, a score is in tenths
find_most_similar(similarities, order, top_k) ==
    LET top_indices == Reverse(PySliceFrom(order, 0 - top_k))
    IN  [r \in 1..Len(top_indices) |-> <<top_indices[r], similarities[top_indices[r]]>>]

\* one to MaxItems candidate embeddings, a query and a top_k
SimilarInputs ==
    [query : Queries,
     candidates : {Encode(c) : c \in SeqsUpTo(KbContents, MaxItems) \ {<<>>}},
     top_k : TopKs]

SimilarInit ==
    /\ BulkInit
    /\ AnalysisIdle
    /\ KbIdle
    /\ f_in \in SimilarInputs
    /\ f_out = <<>>
    /\ f_prev = "new"

\* one call of find_most_similar(query_embedding, candidate_embeddings, top_k)
FindMostSimilar ==
    /\ f_prev = "new"
    /\ LET similarities == [i \in 1..Len(f_in.candidates) |->
                               Similarity(f_in.query, f_in.candidates[i])]
       IN  \E order \in ArgSorts(similarities) :
              f_out' = find_most_similar(similarities, order, f_in.top_k)
    /\ f_prev' = "called"
    /\ UNCHANGED <<f_in, bulkVars, analysisVars, kbVars>>

SimilarNext == FindMostSimilar

SpecSimilar == SimilarInit /\ [][SimilarNext]_vars

\* C17 as stated: find_most_similar returns min(k, number of candidates)
\* pairs (index, score), by descending score, and pairs of equal score by
\* ascending index.
C17_TopKTiesByIndex ==
    f_prev = "called" =>
        /\ Len(f_out) = Min(f_in.top_k, Len(f_in.candidates))
        /\ \A r, t \in 1..Len(f_out) :
              r < t =>
                  /\ f_out[r][2] >= f_out[t][2]
                  /\ f_out[r][2] = f_out[t][2] => f_out[r][1] < f_out[t][1]

\* two candidates of equal score, top_k = 2: the second candidate comes first
C17_TieInDescendingIndex ==
    /\ f_prev = "called"
    /\ f_in.top_k = 2
    /\ Len(f_in.candidates) = 2
    /\ f_out = << <<2, 3>>, <<1, 3>> >>

\* for top_k >= 1 the call returns min(top_k, number of candidates) pairs of
\* distinct candidates with their own scores, by descending score
TopKByDescendingScore ==
    (f_prev = "called" /\ f_in.top_k >= 1) =>
        /\ Len(f_out) = Min(f_in.top_k, Len(f_in.candidates))
        /\ \A r \in 1..Len(f_out) :
              f_out[r][2] = Similarity(f_in.query, f_in.candidates[f_out[r][1]])
        /\ \A r, t \in 1..Len(f_out) :
              r < t => f_out[r][2] >= f_out[t][2] /\ f_out[r][1] # f_out[t][1]

(***************************************************************************)
(* Termination of the background task (bulk.py:194-275)                    *)
(***************************************************************************)
\* the steps of the task of job b
TaskOf(b) ==
    \/ \E setupOk \in BOOLEAN : StartTask(b, setupOk)
    \/ MarkProcessing(b)
    \/ \E out \in AnalysisOutcomes : Analyze(b, out)
    \/ RecordResult(b)
    \/ HandleFailure(b)
    \/ Count(b)

\* The event loop runs every task it was handed, and every await of the task
\* comes back: the scrape has a timeout (scraper.py:18) and the LLM call is
\* taken to return or raise, the database writes to be answered.  So a task
\* that can take a step takes one.
SpecBulkFair ==
    /\ BulkOnlyInit
    /\ [][BulkNext]_vars
    /\ \A b \in BulkIds : WF_vars(TaskOf(b))

\* the k-th URL of job b is not finished
Unfinished(b, k) ==
    /\ b \in bulk_operations
    /\ k <= operation[b].total_urls
    /\ DocOf(b, k).status \in {"pending", "processing"}

\* the k-th URL of job b is finished
Finished(b, k) ==
    /\ b \in bulk_operations
    /\ k <= operation[b].total_urls
    /\ DocOf(b, k).status \in Terminal

\* C18 as stated: every accepted job reaches the status 'completed' or
\* 'failed'; when it is 'completed' every one of its URLs has been
\* attempted; and no URL stays 'pending' or 'processing' forever.
C18_EveryUrlFinishes ==
    /\ \A b \in BulkIds :
          (b \in bulk_operations) ~> (operation[b].status \in Terminal)
    /\ [](\A b \in bulk_operations :
             operation[b].status = "completed" =>
                 \A k \in 1..operation[b].total_urls : DocOf(b, k).status \in Terminal)
    /\ \A b \in BulkIds : \A k \in 1..MaxUrls : Unfinished(b, k) ~> Finished(b, k)

\* the set-up of a job's task failed: the job is 'failed', none of its URLs
\* has been attempted, each is 'pending' and no task is left to change that
C18_FailedJobLeavesPending ==
    \E b \in bulk_operations :
        /\ pc[b] = "aborted"
        /\ operation[b].status = "failed"
        /\ operation[b].completed + operation[b].failed = 0
        /\ \A k \in 1..operation[b].total_urls : DocOf(b, k).status = "pending"

\* every accepted job reaches 'completed' or 'failed', and once the set-up of
\* its task has succeeded every one of its URLs gets finished and the job
\* 'completed', whatever the analyses of the URLs before it did
JobsTerminate ==
    /\ \A b \in BulkIds :
          (b \in bulk_operations) ~> (operation[b].status \in Terminal)
    /\ \A b \in BulkIds :
          (pc[b] = "mark") ~> (pc[b] = "done" /\ operation[b].status = "completed")
    /\ \A b \in BulkIds : \A k \in 1..MaxUrls :
          (Unfinished(b, k) /\ pc[b] \notin {"queued", "aborted"}) ~> Finished(b, k)

(***************************************************************************)
(* The status of a URL's document (bulk.py:86-100, 202-264)                *)
(***************************************************************************)
\* the changes of status the claim allows
StatusMoves ==
    {<<"pending", "processing">>, <<"processing", "completed">>,
     <<"processing", "failed">>}

\* one step creates documents as 'pending' and moves the status of a
\* document it changes along StatusMoves
StatusStep ==
    \A id \in DOMAIN analyses' :
        IF id \in DOMAIN analyses
        THEN \/ analyses'[id].status = analyses[id].status
             \/ <<analyses[id].status, analyses'[id].status>> \in StatusMoves
        ELSE analyses'[id].status = "pending"

\* while the analysis of a URL runs or its result is being written, its
\* document is 'processing'; the documents of the URLs not yet reached are
\* 'pending'
ProcessingWhileAnalysed ==
    \A b \in bulk_operations :
        /\ pc[b] \in {"analyze", "record", "handler"} =>
              DocOf(b, idx[b]).status = "processing"
        /\ \A k \in 1..operation[b].total_urls :
              (pc[b] \in {"queued", "aborted"} \/ (pc[b] # "done" /\ k > idx[b]))
                  => DocOf(b, k).status = "pending"

AllUrlsDone(b) ==
    /\ \A k \in 1..operation[b].total_urls : DocOf(b, k).status \in Terminal
    /\ operation[b].completed + operation[b].failed = operation[b].total_urls

\* a 'completed' job has no URL left and has counted them all
CompletedMeansAllDone ==
    \A b \in bulk_operations :
        operation[b].status = "completed" => AllUrlsDone(b)

\* a step that creates a job creates it 'processing'; a step that makes a
\* job 'completed' starts where every URL of the job is 'completed' or
\* 'failed' already, the last one written and about to be counted
JobStatusStep ==
    \A b \in BulkIds :
        /\ (b \notin bulk_operations /\ b \in bulk_operations') =>
              operation'[b].status = "processing"
        /\ (b \in bulk_operations /\ operation[b].status # "completed"
              /\ operation'[b].status = "completed") =>
                  /\ operation[b].status = "processing"
                  /\ \A k \in 1..operation[b].total_urls :
                        DocOf(b, k).status \in Terminal
                  /\ operation[b].completed + operation[b].failed =
                        operation[b].total_urls - 1

\* C20 (job status): a job is created 'processing'; it becomes 'completed'
\* only when every one of its URLs is 'completed' or 'failed'; and whenever
\* it is 'completed' none of its URLs is 'pending' or 'processing' and
\* completed + failed = total_urls.
C20_CompletedOnlyWhenAllDone ==
    /\ []CompletedMeansAllDone
    /\ [][JobStatusStep]_vars

\* a 'completed' job of two URLs that both failed
C20_Witness ==
    \E b \in bulk_operations :
        /\ operation[b].status = "completed"
        /\ operation[b].total_urls = 2
        /\ operation[b].failed = 2
        /\ AllUrlsDone(b)

(***************************************************************************)
(* The order of the parser's strategies (gemini_client.py:323-360)         *)
(***************************************************************************)
\* the parse of the whole cleaned text validates
WholeIsValid(cleaned_text) ==
    TryCandidates(WholeJson(cleaned_text)).t = "dict"

\* the first match of the three patterns that validates, if there is one
FirstValidMatch(cleaned_text) ==
    TryCandidates(FencedGroups(cleaned_text, "fence_json")
                  \o FencedGroups(cleaned_text, "fence")
                  \o BraceGroups(cleaned_text))

\* C21 as stated: the parser cleans the text, then parses the whole cleaned
\* text, then tries the patterns, then the text extraction, and returns the
\* first valid record: when the whole cleaned text is a valid record, that
\* record is the result; when it is not and a pattern matches a valid
\* record, the first such match is the result.
C21_WholeTextBeforePatterns ==
    a_pc = "parsed" =>
        LET cleaned_text == _clean_response_for_json(response_text)
        IN  /\ WholeIsValid(cleaned_text) =>
                  parsed = TryCandidates(WholeJson(cleaned_text))
            /\ (~WholeIsValid(cleaned_text)
                  /\ FirstValidMatch(cleaned_text).t = "dict") =>
                  parsed = FirstValidMatch(cleaned_text)

\* the text is one valid record that holds another analysis three braces
\* deep: the parser returned the inner analysis
C21_InnerObjectReturned ==
    /\ a_pc = "parsed"
    /\ response_text = <<Nest(Complete7)>>
    /\ WholeIsValid(_clean_response_for_json(response_text))
    /\ parsed = Ret("dict", NestInner)

\* what the parser does: a valid match of a pattern comes before the parse
\* of the whole text, which is consulted only when no match validates and
\* no validation raised
PatternsBeforeWholeText ==
    a_pc = "parsed" =>
        LET cleaned_text == _clean_response_for_json(response_text)
            matched == FirstValidMatch(cleaned_text)
        IN  /\ matched.t = "dict" => parsed = matched
            /\ (matched.t = "none" /\ WholeIsValid(cleaned_text)) =>
                  parsed = TryCandidates(WholeJson(cleaned_text))
            /\ (matched.t = "raise" \/ ~WholeIsValid(cleaned_text)) =>
                  parsed.t \in {"none", "dict"}
            /\ (matched.t # "dict" /\ ~WholeIsValid(cleaned_text)) => parsed.t = "none"

(***************************************************************************)
(* When the fallback replaces the LLM's result (analyzer.py:31-33)         *)
(***************************************************************************)
\* None, '', [] or {}
MissingValues ==
    {Value("none", 0, <<>>), Value("str", 0, <<>>), Value("list", 0, <<>>),
     Value("dict", 0, <<>>)}

\* the LLM's result is absent or empty, holds an 'error' key, or lacks one
\* of the seven fields or holds one of the missing values in it
ResultUnusable(r) ==
    \/ r.t = "none"
    \/ r.d = EmptyDict
    \/ "error" \in DOMAIN r.d
    \/ \E field \in {"company_name", "industry", "business_purpose", "pain_points",
                     "recommendations", "digital_maturity_score", "urgency_score"} :
          field \notin DOMAIN r.d \/ r.d[field] \in MissingValues

\* C22 (fallback condition): once analyze_website is past its fallback
\* test, the fallback has run exactly when the LLM's result is absent or
\* empty, holds an 'error' key, or fails the completeness test; a complete
\* record without 'error' is kept as the analysis, also with a score of 0.
C22_FallbackExactlyWhenUnusable ==
    (a_pc \in {"normalize", "returned"} /\ parsed # Pending) =>
        /\ calls.fallback = (IF ResultUnusable(parsed) THEN 1 ELSE 0)
        /\ ~ResultUnusable(parsed) => analysis = parsed
        /\ ResultUnusable(parsed) =>
              analysis = Ret("dict", _generate_fallback_analysis(scraped_data, rag_analysis))

\* a complete record with urgency_score 0 was returned without the fallback
C22_Witness ==
    /\ a_pc = "returned"
    /\ parsed = Ret("dict", With(Complete7, "urgency_score", Num(0)))
    /\ calls.fallback = 0
    /\ returned.d["urgency_score"] = Num(0)
    /\ returned.d["company_name"] = Str(<<"Acme">>)

\* a record whose recommendations are [] went through the fallback
C22_EmptyListReplaced ==
    /\ a_pc = "returned"
    /\ parsed = Ret("dict", With(Complete7, "recommendations", List(<<>>)))
    /\ calls.fallback = 1

\* ---------------------------------------------------------------------------
\* The fallback record followed by the normalization (analyzer.py:204-245 and
\* 310-343), over scrape results and retrieval contexts.
\* ---------------------------------------------------------------------------

\* scrape results with a title that is only a dash, with a page_title and no
\* title, and the results of the pipeline
FallbackScrapes ==
    ScrapeResults
        \cup {ScrapeOk(<<"-">>, <<>>, <<>>, <<>>),
              [page_title |-> Str(<<"-", " ", "Shop">>)],
              [page_title |-> Str(<<"Shop">>), description |-> PyNone]}

\* retrieval contexts, among them metadata that holds empty lists
FallbackRags ==
    RagResults
        \cup {[detected_industry |-> PyNone,
               general_context |-> <<>>,
               industry_context |-> <<Ctx(List(<<>>), PyNone)>>,
               technology_context |-> <<Ctx(PyNone, List(<<>>))>>],
              [detected_industry |-> Str(<<>>),
               general_context |-> <<>>,
               industry_context |-> <<Ctx(List(<<"p1">>), PyNone)>>,
               technology_context |-> <<Ctx(PyNone, List(<<"o1">>))>>]}

FallbackInit ==
    /\ BulkInit
    /\ AnalysisIdle
    /\ KbIdle
    /\ f_in \in [scraped : FallbackScrapes, rag : FallbackRags]
    /\ f_prev = Pending
    /\ f_out = Pending

\* analyzer.py:36: a call of _generate_fallback_analysis
GenerateFallback ==
    /\ f_prev = Pending
    /\ f_prev' = Ret("dict", _generate_fallback_analysis(f_in.scraped, f_in.rag))
    /\ UNCHANGED <<f_in, f_out, bulkVars, analysisVars, kbVars>>

\* analyzer.py:42: a call of _normalize_analysis on the fallback record
NormalizeFallback ==
    /\ f_prev # Pending
    /\ f_out = Pending
    /\ f_out' = Ret("dict", _normalize_analysis(f_prev.d, f_in.scraped, f_in.rag))
    /\ UNCHANGED <<f_in, f_prev, bulkVars, analysisVars, kbVars>>

FallbackNext == GenerateFallback \/ NormalizeFallback

SpecFallback == FallbackInit /\ [][FallbackNext]_vars

\* C23: for every scrape result and every retrieval context the fallback
\* record, and the record the normalization makes of it, hold the seven
\* required fields with a value other than None, '', [] and {}.
C23_FallbackRecordComplete ==
    /\ f_prev # Pending => _is_analysis_complete(f_prev.d)
    /\ f_out # Pending => _is_analysis_complete(f_out.d)

\* a title that begins with a dash, no description and no content: the
\* company name and the purpose are 'N/A'
C23_Witness ==
    /\ f_out # Pending
    /\ TitleOf(f_in.scraped) # <<>>
    /\ Head(TitleOf(f_in.scraped)) = "-"
    /\ PurposeDefault(f_in.scraped) = Str(<<"N/A">>)
    /\ f_in.rag.detected_industry = PyNone
    /\ f_out.d["company_name"] = Str(<<"N/A">>)
    /\ f_out.d["business_purpose"] = Str(<<"N/A">>)
    /\ f_out.d["industry"] = Str(<<"Unknown">>)
    /\ _is_analysis_complete(f_out.d)

\* ---------------------------------------------------------------------------
\* add_knowledge beside get_relevant_context (knowledge_base.py:194-224 and
\* 245-255).  The class holds no lock.  add_knowledge is two statements, the
\* append of line 254 and the assignment inside _generate_embeddings of line
\* 192; a query reads self.embeddings at line 203 and self.knowledge_data at
\* lines 211-220.  A caller of add_knowledge on another thread is between its
\* two statements while encode() computes, so the steps below interleave
\* statement by statement.  f_in is the position of the add_knowledge call,
\* f_out what the query in progress has read.
\* ---------------------------------------------------------------------------

QueryIdle == [pc |-> "idle", items |-> 0, rows |-> 0, top_indices |-> <<>>,
              result |-> <<>>]

RaceInit ==
    /\ BulkInit
    /\ AnalysisIdle
    /\ knowledge_data \in {<<c>> : c \in KbContents}
    /\ embeddings = Encode(knowledge_data)
    /\ last_call = NoCall
    /\ prev_call = NoCall
    /\ f_in = "idle"
    /\ f_out = QueryIdle
    /\ f_prev = <<>>

\* knowledge_base.py:247-254: the new item is appended
AppendItem(content) ==
    /\ f_in = "idle"
    /\ Len(knowledge_data) < MaxItems
    /\ knowledge_data' = Append(knowledge_data, content)
    /\ f_in' = "appended"
    /\ UNCHANGED <<embeddings, last_call, prev_call, f_out, f_prev,
                   bulkVars, analysisVars>>

\* knowledge_base.py:255 and 186-192: the embeddings are generated again
RegenerateEmbeddings ==
    /\ f_in = "appended"
    /\ embeddings' = _generate_embeddings(knowledge_data, embeddings)
    /\ f_in' = "idle"
    /\ UNCHANGED <<knowledge_data, last_call, prev_call, f_out, f_prev,
                   bulkVars, analysisVars>>

\* knowledge_base.py:196-206: the guard, the similarities to the rows of
\* self.embeddings and the indices of the top_k largest
QueryRead(query, top_k) ==
    /\ f_out.pc = "idle"
    /\ LET similarities ==
               [i \in 1..Len(embeddings) |-> Similarity(query, embeddings[i])]
       IN  f_out' = [pc |-> "selected",
                     items |-> Len(knowledge_data),
                     rows |-> Len(embeddings),
                     top_indices |->
                         Reverse(PySliceFrom(ArgSort(similarities), 0 - top_k)),
                     result |-> <<>>]
    /\ UNCHANGED <<knowledge_data, embeddings, last_call, prev_call, f_in, f_prev,
                   bulkVars, analysisVars>>

\* knowledge_base.py:208-224: self.knowledge_data[idx] for each index chosen
\* (the threshold is below every similarity here)
QueryCollect ==
    /\ f_out.pc = "selected"
    /\ f_out' = [f_out EXCEPT
                    !.pc = "idle",
                    !.result = [k \in 1..Len(f_out.top_indices) |->
                                   knowledge_data[f_out.top_indices[k]]]]
    /\ UNCHANGED <<knowledge_data, embeddings, last_call, prev_call, f_in, f_prev,
                   bulkVars, analysisVars>>

RaceNext ==
    \/ \E content \in KbContents : AppendItem(content)
    \/ RegenerateEmbeddings
    \/ \E query \in Queries, top_k \in TopKs : QueryRead(query, top_k)
    \/ QueryCollect

SpecKbRace == RaceInit /\ [][RaceNext]_vars

ChosenIndicesExist ==
    /\ Len(embeddings) <= Len(knowledge_data)
    /\ f_out.pc = "selected" =>
           \A k \in 1..Len(f_out.top_indices) :
               f_out.top_indices[k] \in 1..Len(knowledge_data)

\* ---------------------------------------------------------------------------
\* get_technology_context (knowledge_base.py:235-243) over corpora of the
\* items _load_knowledge_base builds.  A string is the sequence of its
\* characters.
\* ---------------------------------------------------------------------------

\* the largest corpus
MaxCorpus == 2

\* the literal "Technology" of knowledge_base.py:239
TechnologyLiteral == <<"T", "e", "c", "h", "n", "o", "l", "o", "g", "y">>

KnowledgeItem(category, keywords) == [category |-> category, keywords |-> keywords]

\* knowledge_base.py:84: f"Technology - CMS - {cms.upper()}", keywords [cms] + strengths
CmsItem ==
    KnowledgeItem(<<"T", "e", "c", "h", "n", "o", "l", "o", "g", "y", "-", "C", "M", "S", "-", "W", "P">>,
                  <<<<"w", "p">>, <<"s", "e", "o">>>>)

\* knowledge_base.py:117: f"Technology - Framework - {framework.title()}"
FrameworkItem ==
    KnowledgeItem(<<"T", "e", "c", "h", "n", "o", "l", "o", "g", "y", "-", "F", "r", "a", "m", "e", "w", "o", "r", "k", "-", "V", "u", "e">>,
                  <<<<"v", "u", "e">>>>)

\* knowledge_base.py:66-68: f"Industry - {industry.title()}", keywords
\* [industry] + common_technologies
IndustryItem ==
    KnowledgeItem(<<"I", "n", "d", "u", "s", "t", "r", "y", "-", "S", "h", "o", "p">>,
                  <<<<"s", "h", "o", "p">>, <<"W", "P">>>>)

\* knowledge_base.py:52-54: f"IT Services - {category['name']}"
ServiceItem ==
    KnowledgeItem(<<"I", "T", " ", "S", "e", "r", "v", "i", "c", "e", "s", "-", "S", "e", "o">>,
                  <<<<"s", "e", "o">>>>)

TechnologyItems == {CmsItem, FrameworkItem, IndustryItem, ServiceItem}

TechnologyNames == {<<"W", "P">>, <<"v", "u", "e">>, <<"s", "e", "o">>, <<>>}

\* technology.lower() in [kw.lower() for kw in item.get("keywords", [])]
InKeywords(technology, item) ==
    \E k \in 1..Len(item.keywords) : Lower(item.keywords[k]) = Lower(technology)

\* the condition of knowledge_base.py:239-241
TechnologyMatches(technology, item) ==
    \/ In(TechnologyLiteral, item.category) /\ In(Lower(technology), Lower(item.category))
    \/ InKeywords(technology, item)

\* get_technology_context, knowledge_base.py:235-243
get_technology_context(data, technology) ==
    SelectSeq(data, LAMBDA item : TechnologyMatches(technology, item))

TechnologyInit ==
    /\ BulkInit
    /\ AnalysisIdle
    /\ KbIdle
    /\ f_in \in [data : SeqsUpTo(TechnologyItems, MaxCorpus), technology : TechnologyNames]
    /\ f_out = [done |-> FALSE, items |-> <<>>]
    /\ f_prev = <<>>

\* analyzer.py:62: a call of get_technology_context
GetTechnologyContext ==
    /\ ~f_out.done
    /\ f_out' = [done |-> TRUE, items |-> get_technology_context(f_in.data, f_in.technology)]
    /\ UNCHANGED <<f_in, f_prev, bulkVars, analysisVars, kbVars>>

TechnologyNext == GetTechnologyContext

SpecTechnology == TechnologyInit /\ [][TechnologyNext]_vars

\* C25 as stated: every item get_technology_context returns has a category
\* that contains 'Technology'.
C25_OnlyTechnologyCategories ==
    f_out.done =>
        \A k \in 1..Len(f_out.items) : In(TechnologyLiteral, f_out.items[k].category)

\* the industry profile whose keywords list the technology is returned
C25_IndustryProfileReturned ==
    /\ f_out.done
    /\ f_in.technology = <<"W", "P">>
    /\ \E k \in 1..Len(f_out.items) :
          /\ f_out.items[k] = IndustryItem
          /\ ~In(TechnologyLiteral, f_out.items[k].category)

\* What holds of the code: the result is the items, in corpus order, that
\* match by category or by keyword.
TechnologyByCategoryOrKeyword ==
    f_out.done =>
        /\ \A k \in 1..Len(f_out.items) :
              TechnologyMatches(f_in.technology, f_out.items[k])
        /\ Len(f_out.items) =
              Cardinality({k \in 1..Len(f_in.data) :
                              TechnologyMatches(f_in.technology, f_in.data[k])})

\* ---------------------------------------------------------------------------
\* Jobs with result queries, exports and deletion (bulk.py:153-192, 405-428
\* and 431-489) beside the background task.  delete_bulk_operation awaits
\* delete_many between its test of the table and its del, so it is two
\* steps; f_in is the bulk id of the deletion that is between them (one
\* deletion is in flight at a time).
\* ---------------------------------------------------------------------------

\* bulk.py:157-163 and 192: the status code of GET /bulk/{bulk_id}/results
\* with every status accepted
get_bulk_results_AnyStatus(bulk_id) ==
    IF bulk_id \notin bulk_operations THEN 404 ELSE 200

\* bulk.py:157-163 and 185-190: the status code of GET /bulk/{bulk_id}/results
get_bulk_results(bulk_id) ==
    IF bulk_id \notin bulk_operations THEN 404
    ELSE IF operation[bulk_id].status # "completed" THEN 400
    ELSE 200

\* bulk.py:435-436 and 482-487: the status code of GET /bulk/{bulk_id}/export
\* with a supported format
export_bulk_results(bulk_id) ==
    IF bulk_id \notin bulk_operations THEN 404 ELSE 200

\* a del that leaves the entry in the table
Del_Kept(table, bulk_id) == table

\* bulk.py:421: del bulk_operations[bulk_id]
Del(table, bulk_id) == table \ {bulk_id}

\* bulk.py:417-418: delete_many({"_id": {"$in": analysis_ids}})
DeleteMany(coll, analysis_ids) ==
    [id \in DOMAIN coll \ {analysis_ids[k] : k \in 1..Len(analysis_ids)} |-> coll[id]]

JobsInit ==
    /\ BulkInit
    /\ AnalysisIdle
    /\ KbIdle
    /\ f_in = None
    /\ f_out = <<>>
    /\ f_prev = <<>>

\* GET /bulk/{bulk_id}/results, bulk.py:153-192
GetBulkResults(bulk_id) ==
    /\ response' = Response("bulk_results", get_bulk_results(bulk_id), bulk_id)
    /\ UNCHANGED <<bulk_operations, operation, analyses, nextId, pc, idx,
                   analysis_result, outcomes, peak, request, reported,
                   analysisVars, kbVars, callVars>>

\* GET /bulk/{bulk_id}/export, bulk.py:431-489
ExportBulkResults(bulk_id) ==
    /\ response' = Response("bulk_export", export_bulk_results(bulk_id), bulk_id)
    /\ UNCHANGED <<bulk_operations, operation, analyses, nextId, pc, idx,
                   analysis_result, outcomes, peak, request, reported,
                   analysisVars, kbVars, callVars>>

\* DELETE /bulk/{bulk_id}, bulk.py:409-418: the test of the table, then the
\* documents of the job are deleted; dbUp: whether the database answers
DeleteRecords(bulk_id, dbUp) ==
    /\ f_in = None
    /\ IF bulk_id \notin bulk_operations
       THEN /\ response' = Response("bulk_delete", 404, bulk_id)
            /\ UNCHANGED <<analyses, f_in>>
       ELSE IF ~dbUp
       THEN /\ response' = Response("bulk_delete", 500, bulk_id)
            /\ UNCHANGED <<analyses, f_in>>
       ELSE /\ analyses' = DeleteMany(analyses, operation[bulk_id].analysis_ids)
            /\ f_in' = bulk_id
            /\ UNCHANGED response
    /\ UNCHANGED <<bulk_operations, operation, nextId, pc, idx, analysis_result,
                   outcomes, peak, request, reported, f_out, f_prev,
                   analysisVars, kbVars>>

\* bulk.py:421-425: the entry is removed and the request answered
DeleteEntry ==
    /\ f_in \in BulkIds
    /\ bulk_operations' = Del(bulk_operations, f_in)
    /\ response' = Response("bulk_delete", 200, f_in)
    /\ f_in' = None
    /\ UNCHANGED <<operation, analyses, nextId, pc, idx, analysis_result,
                   outcomes, peak, request, reported, f_out, f_prev,
                   analysisVars, kbVars>>

JobQuery ==
    \E b \in BulkIds : GetBulkResults(b) \/ ExportBulkResults(b)

DeleteJob ==
    \/ \E b \in BulkIds, dbUp \in BOOLEAN : DeleteRecords(b, dbUp)
    \/ DeleteEntry

\* bulk.py:51-127: one job is submitted.  Jobs share no entry of the table and
\* no document, so a second job adds nothing to the steps on the first.
SubmitFirstJob == HandedOut = 0 /\ SubmitJob

JobsNext == SubmitFirstJob \/ TaskStep \/ StatusQuery \/ JobQuery \/ DeleteJob

\* the deletion handler runs to its end once delete_many has answered, and
\* the event loop runs a background task that is ready
SpecJobs ==
    /\ JobsInit
    /\ [][JobsNext]_vars
    /\ WF_vars(DeleteEntry)
    /\ \A b \in BulkIds : WF_vars(TaskOf(b))

TerminalStatus == {"completed", "failed"}

\* C26: a job whose status is 'completed' or 'failed' keeps its status, its
\* two counters and its analysis_ids in every later step; a results request
\* changes nothing, is answered with results exactly for a job in the table
\* whose status is 'completed', and is refused with 400 for a job whose
\* status is 'processing' or 'failed'.
C26_TerminalJobsFrozen ==
    /\ [][\A b \in BulkIds :
             operation[b].status \in TerminalStatus =>
                 /\ operation'[b].status = operation[b].status
                 /\ operation'[b].completed = operation[b].completed
                 /\ operation'[b].failed = operation[b].failed
                 /\ operation'[b].analysis_ids = operation[b].analysis_ids]_vars
    /\ [][(response' # response /\ response'.op = "bulk_results") =>
             /\ UNCHANGED <<bulk_operations, operation, analyses, pc>>
             /\ response'.code = 200 <=>
                    /\ response'.bulk_id \in bulk_operations
                    /\ operation[response'.bulk_id].status = "completed"
             /\ (/\ response'.bulk_id \in bulk_operations
                 /\ operation[response'.bulk_id].status \in {"processing", "failed"})
                    => response'.code = 400]_vars

\* a failed job in the table whose results were asked for and refused
C26_Witness ==
    /\ response = Response("bulk_results", 400, "b1")
    /\ "b1" \in bulk_operations
    /\ operation["b1"].status = "failed"
    /\ pc["b1"] = "aborted"

\* a job whose entry delete_bulk_operation has removed: its id was handed
\* out and is not in the table
Deleted(b) == operation[b] # NoOperation /\ b \notin bulk_operations

\* the pcs of a task that has returned: after its last statement, or after
\* its outer except block
TaskReturned(b) == pc[b] \in {"done", "aborted"}

\* C27: a deleted job's id stays out of the table, whatever the background
\* task does; a status, results or export request for an id that is not in
\* the table is answered 404; the task of a deleted job returns, by its last
\* statement or by its outer except block, and writes nothing to the table.
C27_DeleteIsSafe ==
    /\ [][\A b \in BulkIds : Deleted(b) => Deleted(b)']_vars
    /\ [][(/\ response' # response
           /\ response'.op \in {"bulk_results", "bulk_export"}
           /\ response'.bulk_id \notin bulk_operations)
              => response'.code = 404]_vars
    /\ [][(/\ response' # response
           /\ response'.op \in {"bulk_results", "bulk_export", "bulk_status"}
           /\ response'.code # 404)
              => response'.bulk_id \in bulk_operations]_vars
    /\ [](response = Response("bulk_delete", 200, response.bulk_id)
              => Deleted(response.bulk_id))
    /\ \A b \in BulkIds : Deleted(b) ~> TaskReturned(b)

\* a job deleted while its task was between two URLs: the task goes on with
\* its own reference to the entry
C27_Witness ==
    /\ Deleted("b1")
    /\ response = Response("bulk_delete", 200, "b1")
    /\ pc["b1"] = "analyze"
    /\ idx["b1"] = 2
    /\ operation["b1"].completed = 1

\* a job deleted before its task started: the lookup of line 200 raises and
\* the outer except block finds no entry to write to
DeletedBeforeStart ==
    /\ Deleted("b1")
    /\ pc["b1"] = "aborted"
    /\ operation["b1"].status = "processing"

\* ---------------------------------------------------------------------------
\* POST /analyze (src/app/api/analyze.py:13-77).  f_in is the analyses
\* collection, a sequence of documents whose _id is their place; f_out is
\* the handler of each request: where it is, its URL, the id it inserted and
\* the id it answered with.  The handler awaits find_one, insert_one, the
\* analysis and update_one, so requests interleave between these.
\* ---------------------------------------------------------------------------

\* the largest number of POST /analyze requests
MaxRequests == 2

Requests == 1..MaxRequests
RequestUrls == {"u1", "u2"}

NoRequest == [pc |-> "none", url |-> None, analysis_id |-> 0, answered |-> 0,
              found |-> 0]

\* find_one({"url": url}): a document that matches, 0 for None.  No sort is
\* given, so the document is any of those that match.
FindOne(coll, url) ==
    IF \E id \in 1..Len(coll) : coll[id].url = url
    THEN {id \in 1..Len(coll) : coll[id].url = url}
    ELSE {0}

AnalyzeApiInit ==
    /\ BulkInit
    /\ AnalysisIdle
    /\ KbIdle
    /\ f_in = <<>>
    /\ f_out = [r \in Requests |-> NoRequest]
    /\ f_prev = <<>>

\* analyze.py:21-26: the lookup, and the answer when the document found is
\* 'completed'
FindExisting(r, url) ==
    /\ f_out[r].pc = "none"
    /\ \E existing \in FindOne(f_in, url) :
          IF existing # 0 /\ f_in[existing].status = "completed"
          THEN f_out' = [f_out EXCEPT ![r] = [pc |-> "returned", url |-> url,
                                              analysis_id |-> 0,
                                              answered |-> existing,
                                              found |-> existing]]
          ELSE f_out' = [f_out EXCEPT ![r] = [pc |-> "insert", url |-> url,
                                              analysis_id |-> 0, answered |-> 0,
                                              found |-> existing]]
    /\ UNCHANGED <<f_in, f_prev, bulkVars, analysisVars, kbVars>>

\* analyze.py:29-37: the new document
InsertRecord(r) ==
    /\ f_out[r].pc = "insert"
    /\ f_in' = Append(f_in, [url |-> f_out[r].url, status |-> "processing"])
    /\ f_out' = [f_out EXCEPT ![r].pc = "analyze", ![r].analysis_id = Len(f_in) + 1]
    /\ UNCHANGED <<f_prev, bulkVars, analysisVars, kbVars>>

\* analyze.py:40-77: the analysis returns a record or an {'error': ...}
\* result, or raises; the document is updated and the request answered
FinishAnalysis(r, out) ==
    /\ f_out[r].pc = "analyze"
    /\ f_in' = [f_in EXCEPT ![f_out[r].analysis_id].status =
                   IF out = "record" THEN "completed" ELSE "failed"]
    /\ f_out' = [f_out EXCEPT ![r].pc = "returned",
                              ![r].answered = f_out[r].analysis_id]
    /\ UNCHANGED <<f_prev, bulkVars, analysisVars, kbVars>>

AnalyzeApiNext ==
    \E r \in Requests :
        \/ \E url \in RequestUrls : FindExisting(r, url)
        \/ InsertRecord(r)
        \/ \E out \in AnalysisOutcomes : FinishAnalysis(r, out)

SpecAnalyzeApi == AnalyzeApiInit /\ [][AnalyzeApiNext]_vars

\* the documents of a URL that are 'completed'
CompletedFor(url) ==
    {id \in 1..Len(f_in) : f_in[id].url = url /\ f_in[id].status = "completed"}

\* C28 as stated: no URL has more than one 'completed' document.
C28_AtMostOneCompleted ==
    \A url \in RequestUrls : Cardinality(CompletedFor(url)) <= 1

\* two requests for one URL that both looked before either had inserted:
\* each found nothing, inserted and completed its own document
C28_TwoCompleted ==
    /\ f_out[1].pc = "returned" /\ f_out[2].pc = "returned"
    /\ f_out[1].url = "u1" /\ f_out[2].url = "u1"
    /\ f_out[1].found = 0 /\ f_out[2].found = 0
    /\ CompletedFor("u1") = {1, 2}

\* What holds of the code: a request whose lookup returned a 'completed'
\* document answers with that document's id and inserts nothing.
FoundCompletedIsReused ==
    \A r \in Requests :
        (f_out[r].pc = "returned" /\ f_out[r].analysis_id = 0) =>
            /\ f_out[r].answered = f_out[r].found
            /\ f_in[f_out[r].found].status = "completed"
            /\ f_in[f_out[r].found].url = f_out[r].url

\* ---------------------------------------------------------------------------
\* Forced logout (src/app/main.py:154-219, src/app/api/auth.py:61-78, 145-175
\* and src/app/utils/auth.py:34-112) for one user.  f_in is the clock in
\* whole seconds, the user's token_invalidated_at (0: not set), the number
\* of forced logouts so far and the token pairs issued; f_out is the last
\* answer.  create_tokens issues an access and a refresh token with the same
\* iat.  A pair records its iat, the number of forced logouts before it was
\* issued, and the number before the password login it descends from.
\* ---------------------------------------------------------------------------

\* the last second of the clock
MaxTime == 2
\* the largest number of forced logouts
MaxLogouts == 1

TokenPair(iat, issued, origin) == [iat |-> iat, issued |-> issued, origin |-> origin]
NoToken == TokenPair(0, 0, 0)
TokenTypes == {"access", "refresh"}

AuthAnswer(op, code, token, type, logouts) ==
    [op |-> op, code |-> code, token |-> token, type |-> type, logouts |-> logouts]

AuthInit ==
    /\ BulkInit
    /\ AnalysisIdle
    /\ KbIdle
    /\ f_in = [now |-> 1, invalidated_at |-> 0, logouts |-> 0, tokens |-> {}]
    /\ f_out = AuthAnswer("none", 0, NoToken, "none", 0)
    /\ f_prev = <<>>

\* a second passes
Tick ==
    /\ f_in.now < MaxTime
    /\ f_in' = [f_in EXCEPT !.now = @ + 1]
    /\ UNCHANGED <<f_out, f_prev, bulkVars, analysisVars, kbVars>>

\* POST /auth/login with the password, auth.py:61-78: create_tokens
LoginUser ==
    \E pair \in {TokenPair(f_in.now, f_in.logouts, f_in.logouts)} :
        /\ f_in' = [f_in EXCEPT !.tokens = @ \cup {pair}]
        /\ f_out' = AuthAnswer("login", 200, pair, "access", f_in.logouts)
        /\ UNCHANGED <<f_prev, bulkVars, analysisVars, kbVars>>

\* force_logout_user, auth.py:145-159: token_invalidated_at is set to now
ForceLogoutUser ==
    /\ f_in.logouts < MaxLogouts
    /\ f_in' = [f_in EXCEPT !.invalidated_at = f_in.now, !.logouts = @ + 1]
    /\ f_out' = AuthAnswer("logout", 200, NoToken, "none", f_in.logouts + 1)
    /\ UNCHANGED <<f_prev, bulkVars, analysisVars, kbVars>>

\* enforce_authentication on a protected path with a bearer token that
\* decodes, main.py:190-213: the type of the token is not looked at; 401
\* when token_invalidated_at is set and iat < int(invalidated_at.timestamp())
enforce_authentication(token, invalidated_at) ==
    IF invalidated_at # 0 /\ token.iat < invalidated_at THEN 401 ELSE 200

\* a request to a protected path with a token that was issued
ProtectedRequest(token, type) ==
    /\ token \in f_in.tokens
    /\ f_out' = AuthAnswer("request", enforce_authentication(token, f_in.invalidated_at),
                           token, type, f_in.logouts)
    /\ UNCHANGED <<f_in, f_prev, bulkVars, analysisVars, kbVars>>

\* POST /auth/refresh, auth.py:162-175: a refresh token that decodes gives a
\* new pair; the path is public and token_invalidated_at is not read
RefreshToken(token, type) ==
    /\ token \in f_in.tokens
    /\ IF type # "refresh"
       THEN /\ f_out' = AuthAnswer("refresh", 401, token, type, f_in.logouts)
            /\ UNCHANGED f_in
       ELSE \E pair \in {TokenPair(f_in.now, f_in.logouts, token.origin)} :
               /\ f_in' = [f_in EXCEPT !.tokens = @ \cup {pair}]
               /\ f_out' = AuthAnswer("refresh", 200, pair, "access", f_in.logouts)
    /\ UNCHANGED <<f_prev, bulkVars, analysisVars, kbVars>>

\* the pairs create_tokens can issue within the clock
TokenPairs ==
    {TokenPair(iat, issued, origin) :
        iat \in 1..MaxTime, issued \in 0..MaxLogouts, origin \in 0..MaxLogouts}

AuthRequest ==
    \E token \in TokenPairs, type \in TokenTypes :
        ProtectedRequest(token, type) \/ RefreshToken(token, type)

AuthNext == Tick \/ LoginUser \/ ForceLogoutUser \/ AuthRequest

SpecAuth == AuthInit /\ [][AuthNext]_vars

\* C29 as stated: a protected request is accepted only with a token that
\* descends from a password login made after the last forced logout, so
\* with no token issued before it and no token refreshed from such a token.
C29_ForcedLogoutEffective ==
    (f_out.op = "request" /\ f_out.code = 200) => f_out.token.origin = f_out.logouts

\* a token refreshed after the forced logout from a refresh token issued
\* before it is accepted
C29_RefreshedTokenAccepted ==
    /\ f_out.op = "request"
    /\ f_out.code = 200
    /\ f_out.logouts = 1
    /\ f_out.token.origin = 0
    /\ f_out.token.issued = 1
    /\ f_out.token.iat > f_in.invalidated_at

\* a token issued before the forced logout, in the same second, is accepted
IssuedSameSecondAccepted ==
    /\ f_out.op = "request"
    /\ f_out.code = 200
    /\ f_out.token.issued < f_out.logouts
    /\ f_out.token.iat = f_in.invalidated_at

\* What holds of the code: a token whose iat is a second before that of the
\* last forced logout is refused.
OlderSecondRefused ==
    (f_out.op = "request" /\ f_out.logouts = f_in.logouts
        /\ f_out.token.iat < f_in.invalidated_at) => f_out.code = 401

\* ---------------------------------------------------------------------------
\* POST /bulk/upload (bulk.py:22-49).  A file is its extension and the list
\* parse_csv_content or parse_excel_content returns for it.  response is
\* what the inner call of bulk_analyze_urls returned or raised, f_out the
\* answer of the upload; request keeps the extension and the size of the
\* list.
\* ---------------------------------------------------------------------------

FileSizes == {0, 1, 2, MaxBulkUrls, MaxBulkUrls + 1}

\* bulk.py:29: the extensions accepted
SupportedExtensions == {"csv", "xlsx", "xls"}

UploadedFiles ==
    {[ext |-> ext, urls |-> FilledUrls(n, 0, <<"https://", "a.com">>)] :
        ext \in {"csv", "xlsx", "txt"}, n \in FileSizes}

UploadInit ==
    /\ BulkInit
    /\ AnalysisIdle
    /\ KbIdle
    /\ f_in = <<>>
    /\ f_out = Response("none", 0, None)
    /\ f_prev = <<>>

\* bulk.py:48-49: except Exception catches the HTTPException raised inside
\* the try block, whatever its status, and raises one with status 500
UploadStatus(code) == IF code = 200 THEN 200 ELSE 500

\* upload_bulk_file, bulk.py:22-49
upload_bulk_file(file, dbUp) ==
    /\ request' = RequestSummary([shape |-> file.ext, urls |-> file.urls])
    /\ IF file.ext \notin SupportedExtensions
       THEN /\ f_out' = Response("bulk_upload", 400, None)
            /\ UNCHANGED <<bulk_operations, operation, analyses, nextId, pc, idx,
                           analysis_result, outcomes, peak, response, reported>>
       ELSE IF file.urls = <<>>
       THEN /\ f_out' = Response("bulk_upload", UploadStatus(400), None)
            /\ UNCHANGED <<bulk_operations, operation, analyses, nextId, pc, idx,
                           analysis_result, outcomes, peak, response, reported>>
       ELSE /\ bulk_analyze_urls([shape |-> "list", urls |-> file.urls],
                                 FreshBulkId, dbUp)
            /\ f_out' = Response("bulk_upload", UploadStatus(response'.code),
                                 response'.bulk_id)
    /\ UNCHANGED <<f_in, f_prev, analysisVars, kbVars>>

UploadBulkFile ==
    \E file \in UploadedFiles, dbUp \in BOOLEAN : upload_bulk_file(file, dbUp)

UploadNext == UploadBulkFile

SpecUpload == UploadInit /\ [][UploadNext]_vars

\* the last upload was a supported file with no URL or with more than 500
ClientError ==
    /\ f_out.op = "bulk_upload"
    /\ request.shape \in SupportedExtensions
    /\ request.n = 0 \/ request.n > MaxBulkUrls

\* C30 as stated: an upload that yields no URL, or more than 500, is
\* answered with status 400.
C30_ClientErrorsAre400 == ClientError => f_out.code = 400

\* an upload with no URL answered with status 500
C30_EmptyFileAnswered500 ==
    /\ ClientError
    /\ request.n = 0
    /\ f_out = Response("bulk_upload", 500, None)

\* an upload of 501 URLs answered with status 500
TooManyAnswered500 ==
    /\ ClientError
    /\ request.n = MaxBulkUrls + 1
    /\ response = Response("bulk_urls", 400, None)
    /\ f_out = Response("bulk_upload", 500, None)

\* What holds of the code: such an upload is answered 500, and it creates
\* no job entry and no analysis record.
ClientErrorsCreateNothing ==
    /\ [](ClientError => f_out.code = 500)
    /\ [][(ClientError' /\ <<request, f_out, response>>' # <<request, f_out, response>>)
              => UNCHANGED <<bulk_operations, operation, analyses, nextId>>]_vars

====
